---- MODULE Spec2Model ----
(***************************************************************************)
(* Model of the message delivery engine of message_sender.                 *)
(*                                                                         *)
(* Part 1 (specification Spec / FairSpec): the SignalWorker of             *)
(* src/messangers/signal.rs: one receive loop that owns a FIFO queue of    *)
(* send / delete / edit jobs, one abort handle for the job in flight, the  *)
(* connection (manager) and the link task.  The worker loop and the tasks  *)
(* it spawns run on one thread (a LocalSet on a current-thread runtime),   *)
(* so one handler and one poll of a task are atomic with respect to each   *)
(* other; messages arrive from other threads through the unbounded         *)
(* channel signal_reciever.                                                *)
(***************************************************************************)
EXTENDS Integers, Sequences, FiniteSets, TLC

\* ---------------------------------------------------------------- bounds
\* number of messages the environment (operator / UI) puts on the channel
MaxMsgs == 4
\* number of messages that may wait in the channel at once
MaxChan == 3
\* Signal / WhatsApp destinations a record may have
MaxSig == 2
MaxWa == 1
\* operator actions while the record is being delivered (cancel, refresh,
\* delete, edit, link / unlink requests)
MaxOps == 2

None == 0
\* the UI thread is not inside a set_status call
Idle == [at |-> "idle", count |-> 0, new |-> "none", old |-> "none"]

\* number of destinations, of send categories and of network identifiers
MaxDest == 1
MaxCats == 2
MaxNet == 2
MaxBody == 2
MaxPosts == 2
MaxRecs == 3
MaxLimit == 2
MaxContent == 2
MaxKeys == 2
MaxToggles == 5
MaxLoops == 2
MaxAttempts == 3
\* sync tasks spawned, stream events consumed by one sync task
MaxSync == 2
\* titles a group can be listed with
MaxTitles == 2
MaxEvents == 2

Dests == 1..MaxDest
Networks == 1..MaxNet
\* message::SendMode
Modes == {"Off", "Normal", "Frequency"}
\* a key that is not in a HashMap<Key, SendMode>
NoEntry == "none"

JobKinds == {"SendMessage", "DeleteMessage", "EditMessage"}
ControlKinds == {"LinkBegin", "CancelLink", "Disconnect", "GetGroups", "Cancel"}

VARIABLES
    signal_reciever,   \* the channel of SignalMessage values, oldest first
    message_queue,     \* SignalWorker.message_queue
    abort_handle,      \* SignalWorker.abort_handle: None or a task id
    link_abort,        \* SignalWorker.link_abort: None or a link task id
    manager,           \* SignalWorker.manager.is_some()
    has_connected,     \* SignalWorker.has_connected
    tasks,             \* every job task spawned so far (id = index)
    links,             \* every link task spawned so far (id = index)
    signal_state,      \* last SetSignalState sent to the UI
    issued,            \* number of messages the environment has sent
    next_job,          \* identity given to the next enqueued job
    removed,           \* identities of the jobs popped from message_queue
    handled,           \* the message the worker handled last, and what it popped
    \* one DeliveryRecord (SendMessageInfo) and the threads that share it
    status,            \* SendMessageInfo.status
    timestamp,         \* GroupInfoSignal.timestamp of each Signal destination
    sent,              \* GroupInfoWhatsapp.sent of each WhatsApp destination
    sent_id,           \* GroupInfoWhatsapp.sent_id (0 = empty string)
    groups_signal,     \* groups_signal.len()
    groups_whatsapp,   \* groups_whatsapp.len()
    app_manager,       \* App.manager.is_some()
    whatsapp_client,   \* App.whatsapp_client.is_some()
    ui_tasks,          \* ui::Message values returned as Task::done, not yet dispatched
    ui_pc,             \* where the UI thread is inside set_status, and the count it read
    edit,              \* MainScreen.edit holds the record (else message_history does)
    wa_tasks,          \* every WhatsApp task spawned so far
    ops,               \* number of operator actions since the record was submitted
    crashed,           \* the UI thread panicked
    \* the routing tables (AppData) and the message being submitted
    categories,        \* AppData.categories, in list order
    groups,            \* AppData.groups: the global SendMode of each destination
    network,           \* network tag of the submitted message (None = no tag)
    resolved,          \* done: the message was submitted; map: the SendMode of
                       \* each destination pushed into its record
    \* the message server and the main screen's queue of accepted messages
    autosend,          \* AppData.autosend
    msg_send_channel,  \* the AcceptMessage values sent to the UI, oldest first
    main_scr_queue,    \* MainScreen.message_queue
    cur_message,       \* MainScreen.cur_message: << >> or <<message>>
    next_tasks,        \* NextMessage values returned as Task::done, not yet dispatched
    sends,             \* every main_screen SendMessage emitted so far
    request,           \* body of the last POST
    response,          \* status of the last response
    posts,             \* number of requests served
    presses,           \* number of buttons pressed on the main screen
    \* the history list of the main screen
    message_history,   \* MainScreen.message_history: record ids, front first
    history_len,       \* AppData.history_len
    editing,           \* MainScreen.edit: None or the id of the record being edited
    next_rec,          \* id of the next record created
    popped,            \* what the last push removed: None or a record id
    evicted,           \* the DeliveryRecord was popped from the history (done),
                       \* with so many markers set at that time (count)
    \* the content handed to the backends
    info,              \* the SendMessageInfo: content, freq, the SendMode of
                       \* each destination; markdown is AppData.markdown
    body_signal,       \* DataMessage.body built for each Signal destination
    body_whatsapp,     \* wa::Message.conversation built for each WhatsApp destination
    \* the group list of the main screen
    group_modes,       \* Group.send_mode of each known group, with the values
                       \* it had before (oldest first); << >>: group not known
    \* the timeout-raced send loops of signal_actions / async_actions
    send_loops,        \* per destination loop: the module it belongs to, where
                       \* it is, the attempts made, whether a call succeeded
    \* the sync tasks (signal.rs sync, async_actions::sync)
    sync_tasks,        \* per task: its module, where it is, the Synced and
                       \* Disconnected reports it made
    \* send_message of signal.rs with parallel = true
    par,               \* the job's position and the loop of each destination
    \* the group list of the main screen, continued
    titles,            \* Group.title of each known group (None: not known)
    set_groups         \* the list of the SetGroups message, if that was the
                       \* message the main screen handled last: the title of
                       \* each listed group (None: not listed)

workerVars == <<signal_reciever, message_queue, abort_handle, link_abort,
                manager, has_connected, tasks, links, signal_state>>
ghostVars == <<issued, next_job, removed, handled>>
recVars == <<status, timestamp, sent, sent_id, groups_signal, groups_whatsapp,
             app_manager, whatsapp_client, ui_tasks, ui_pc, edit, wa_tasks,
             ops, crashed>>
acceptVars == <<autosend, msg_send_channel, main_scr_queue, cur_message,
                next_tasks, sends, request, response, posts, presses>>
histVars == <<message_history, history_len, editing, next_rec, popped>>
bodyVars == <<info, body_signal, body_whatsapp>>
moreVars == <<sync_tasks, par, titles, set_groups>>
laterVars == <<histVars, evicted, bodyVars, group_modes, send_loops, moreVars>>
routeVars == <<categories, groups, network, resolved, acceptVars, laterVars>>
vars == <<workerVars, ghostVars, recVars, routeVars>>

\* no message has been submitted: the routing tables are as
\* AppData::default() leaves them, every known destination Off
NoRoute ==
    /\ categories = << >>
    /\ groups = [key \in Dests |-> "Off"]
    /\ network = None
    /\ resolved = [done |-> FALSE, map |-> [key \in Dests |-> NoEntry]]
    /\ autosend = FALSE
    /\ msg_send_channel = << >>
    /\ main_scr_queue = << >>
    /\ cur_message = << >>
    /\ next_tasks = 0
    /\ sends = << >>
    /\ request = << >>
    /\ response = "none"
    /\ posts = 0
    /\ presses = 0
    /\ message_history = << >>
    /\ history_len = MaxLimit
    /\ editing = None
    /\ next_rec = 1
    /\ popped = None
    /\ evicted = [done |-> FALSE, count |-> 0]
    /\ info = [made |-> FALSE, content |-> << >>, freq |-> << >>,
               markdown |-> FALSE, parse_ok |-> FALSE,
               signal |-> [g \in 1..MaxSig |-> "Off"],
               whatsapp |-> [g \in 1..MaxWa |-> "Off"]]
    /\ body_signal = [g \in 1..MaxSig |-> [built |-> FALSE, body |-> << >>]]
    /\ body_whatsapp = [g \in 1..MaxWa |-> [built |-> FALSE, body |-> << >>]]
    /\ group_modes = [key \in 1..MaxKeys |-> << >>]
    /\ send_loops = << >>
    /\ sync_tasks = << >>
    /\ par = [pc |-> "none", loops |-> << >>]
    /\ titles = [key \in 1..MaxKeys |-> None]
    /\ set_groups = [key \in 1..MaxKeys |-> None]

\* A SignalMessage.  arg: the job identity of a queued operation, the
\* result of Linked (1 = Ok, 0 = Err), the emitting task of Finished.
SignalMessage(type, arg) == [type |-> type, arg |-> arg]

\* ------------------------------------------------------------ the worker

\* (variant: the handle is dropped, the task goes on)
abort_detached(tsk, h) == tsk

\* tokio AbortHandle::abort: stops a task that has not completed
abort(tsk, h) ==
    IF h # None /\ tsk[h].st = "live"
    THEN [tsk EXCEPT ![h].st = "aborted"]
    ELSE tsk

\* SignalWorker::execute_task: spawn the task of a queued message
execute_task(message) ==
    [job |-> message, st |-> "live", pc |-> "start", g |-> 1]

\* (variant: a job is started whether or not a connection is there)
execute_next_maybe_unlinked(ah, mgr, q, tsk) ==
    IF ah = None /\ q # << >>
    THEN /\ tasks' = Append(tsk, execute_task(Head(q)))
         /\ abort_handle' = Len(tsk) + 1
    ELSE /\ tasks' = tsk
         /\ abort_handle' = ah

\* SignalWorker::execute_next_maybe, from the values ah / mgr / q / tsk the
\* handler has produced so far
execute_next_maybe(ah, mgr, q, tsk) ==
    IF ah = None /\ mgr /\ q # << >>
    THEN /\ tasks' = Append(tsk, execute_task(Head(q)))
         /\ abort_handle' = Len(tsk) + 1
    ELSE /\ tasks' = tsk
         /\ abort_handle' = ah

\* the receive loop takes the oldest message
Recv(type) ==
    /\ ~crashed
    /\ signal_reciever # << >>
    /\ Head(signal_reciever).type = type
    /\ signal_reciever' = Tail(signal_reciever)

Note(pop) ==
    handled' = [type |-> Head(signal_reciever).type,
                arg |-> Head(signal_reciever).arg, pop |-> pop,
                before |-> handled.type]

HandleLinkBegin ==
    /\ Recv("LinkBegin")
    /\ links' = Append(links, "spawned")
    /\ link_abort' = Len(links) + 1
    /\ Note(None)
    /\ UNCHANGED <<message_queue, abort_handle, manager, has_connected,
                   tasks, signal_state, issued, next_job, removed>>
    /\ UNCHANGED <<recVars, routeVars>>

\* (variant: a failed link is treated like a successful one)
HandleLinked_anyResult ==
    /\ Recv("Linked")
    /\ manager' = TRUE
    /\ has_connected' = TRUE
    /\ execute_next_maybe(abort_handle, TRUE, message_queue, tasks)
    /\ signal_state' = "Linked"
    /\ Note(None)
    /\ UNCHANGED <<message_queue, link_abort, links, issued, next_job, removed>>
    /\ UNCHANGED <<recVars, routeVars>>

\* SignalMessage::Linked(mng_res)
HandleLinked ==
    /\ Recv("Linked")
    /\ IF Head(signal_reciever).arg = 1
       THEN /\ manager' = TRUE
            /\ has_connected' = TRUE
            /\ execute_next_maybe(abort_handle, TRUE, message_queue, tasks)
            /\ signal_state' = "Linked"
       ELSE /\ signal_state' = IF has_connected THEN "Disconnected" ELSE "Unlinked"
            /\ UNCHANGED <<manager, has_connected, tasks, abort_handle>>
    /\ Note(None)
    /\ UNCHANGED <<message_queue, link_abort, links, issued, next_job, removed>>
    /\ UNCHANGED <<recVars, routeVars>>

HandleDisconnect ==
    /\ Recv("Disconnect")
    /\ manager' = FALSE
    /\ tasks' = abort(tasks, abort_handle)
    /\ abort_handle' = None
    /\ Note(None)
    /\ UNCHANGED <<message_queue, link_abort, has_connected, links,
                   signal_state, issued, next_job, removed>>
    /\ UNCHANGED <<recVars, routeVars>>

HandleCancelLink ==
    /\ Recv("CancelLink")
    /\ tasks' = abort(tasks, abort_handle)
    /\ abort_handle' = None
    /\ signal_state' = "Unlinked"
    /\ Note(None)
    /\ UNCHANGED <<message_queue, link_abort, manager, has_connected, links,
                   issued, next_job, removed>>
    /\ UNCHANGED <<recVars, routeVars>>

\* (variant: the cancelled job is abandoned and the next one is started)
HandleCancel_advance ==
    /\ Recv("Cancel")
    /\ message_queue' = IF message_queue = << >> THEN << >>
                        ELSE Tail(message_queue)
    /\ IF manager
       THEN execute_next_maybe(None, manager, message_queue',
                               abort(tasks, abort_handle))
       ELSE /\ tasks' = abort(tasks, abort_handle)
            /\ abort_handle' = None
    /\ Note(None)
    /\ UNCHANGED <<link_abort, manager, has_connected, links,
                   signal_state, issued, next_job, removed>>
    /\ UNCHANGED <<recVars, routeVars>>

\* SignalMessage::Cancel
HandleCancel ==
    /\ Recv("Cancel")
    /\ IF manager
       THEN execute_next_maybe(None, manager, message_queue,
                               abort(tasks, abort_handle))
       ELSE /\ tasks' = abort(tasks, abort_handle)
            /\ abort_handle' = None
    /\ Note(None)
    /\ UNCHANGED <<message_queue, link_abort, manager, has_connected, links,
                   signal_state, issued, next_job, removed>>
    /\ UNCHANGED <<recVars, routeVars>>

HandleFinished ==
    /\ Recv("Finished")
    /\ message_queue' = IF message_queue = << >> THEN << >>
                        ELSE Tail(message_queue)
    /\ execute_next_maybe(None, manager, message_queue', tasks)
    /\ removed' = IF message_queue = << >> THEN removed
                  ELSE removed \cup {Head(message_queue).arg}
    /\ Note(IF message_queue = << >> THEN None ELSE Head(message_queue).arg)
    /\ UNCHANGED <<link_abort, manager, has_connected, links, signal_state,
                   issued, next_job>>
    /\ UNCHANGED <<recVars, routeVars>>

HandleGetGroups ==
    /\ Recv("GetGroups")
    /\ Note(None)
    /\ UNCHANGED <<message_queue, abort_handle, link_abort, manager,
                   has_connected, tasks, links, signal_state, issued,
                   next_job, removed>>
    /\ UNCHANGED <<recVars, routeVars>>

HandleEnqueue ==
    /\ ~crashed
    /\ signal_reciever # << >>
    /\ Head(signal_reciever).type \in JobKinds
    /\ signal_reciever' = Tail(signal_reciever)
    /\ message_queue' = Append(message_queue, Head(signal_reciever))
    /\ execute_next_maybe(abort_handle, manager, message_queue', tasks)
    /\ Note(None)
    /\ UNCHANGED <<link_abort, manager, has_connected, links, signal_state,
                   issued, next_job, removed>>
    /\ UNCHANGED <<recVars, routeVars>>

Worker ==
    \/ HandleLinkBegin
    \/ HandleLinked
    \/ HandleDisconnect
    \/ HandleCancelLink
    \/ HandleCancel
    \/ HandleFinished
    \/ HandleGetGroups
    \/ HandleEnqueue

\* -------------------------------------------------- the tasks it spawns

\* message_task!: the job's future ran to its end, then sends Finished
TaskFinished(t) ==
    /\ t \in 1..Len(tasks)
    /\ tasks[t].st = "live"
    /\ tasks' = [tasks EXCEPT ![t].st = "done"]
    /\ signal_reciever' = Append(signal_reciever, SignalMessage("Finished", t))
    /\ UNCHANGED <<message_queue, abort_handle, link_abort, manager,
                   has_connected, links, signal_state, ghostVars>>
    /\ UNCHANGED <<recVars, routeVars>>

\* link(): first poll reports Linking
LinkStart(l) ==
    /\ ~crashed
    /\ links[l] = "spawned"
    /\ links' = [links EXCEPT ![l] = "running"]
    /\ signal_state' = "Linking"
    /\ UNCHANGED <<signal_reciever, message_queue, abort_handle, link_abort,
                   manager, has_connected, tasks, ghostVars>>
    /\ UNCHANGED <<recVars, routeVars>>

\* link(): no route to the internet, report and sleep
LinkNoInternet(l) ==
    /\ ~crashed
    /\ links[l] = "running"
    /\ signal_state # "Disconnected"
    /\ signal_state' = "Disconnected"
    /\ UNCHANGED <<signal_reciever, message_queue, abort_handle, link_abort,
                   manager, has_connected, tasks, links, ghostVars>>
    /\ UNCHANGED <<recVars, routeVars>>

\* LinkBegin's continuation: link() returned, send Linked(res)
LinkFinished(l, ok) ==
    /\ ~crashed
    /\ links[l] = "running"
    /\ links' = [links EXCEPT ![l] = "done"]
    /\ signal_reciever' = Append(signal_reciever,
                                 SignalMessage("Linked", IF ok THEN 1 ELSE 0))
    /\ UNCHANGED <<message_queue, abort_handle, link_abort, manager,
                   has_connected, tasks, signal_state, ghostVars>>
    /\ UNCHANGED <<recVars, routeVars>>

\* ------------------------------------------------------ the environment

\* a control message is put on the channel (ui::Message::SignalMessage)
SendControl(type) ==
    /\ issued < MaxMsgs
    /\ Len(signal_reciever) < MaxChan
    /\ signal_reciever' = Append(signal_reciever, SignalMessage(type, None))
    /\ issued' = issued + 1
    /\ UNCHANGED <<message_queue, abort_handle, link_abort, manager,
                   has_connected, tasks, links, signal_state, next_job,
                   removed, handled>>
    /\ UNCHANGED <<recVars, routeVars>>

\* a send / delete / edit request is put on the channel
SendJob(kind) ==
    /\ issued < MaxMsgs
    /\ Len(signal_reciever) < MaxChan
    /\ signal_reciever' = Append(signal_reciever, SignalMessage(kind, next_job))
    /\ issued' = issued + 1
    /\ next_job' = next_job + 1
    /\ UNCHANGED <<message_queue, abort_handle, link_abort, manager,
                   has_connected, tasks, links, signal_state, removed, handled>>
    /\ UNCHANGED <<recVars, routeVars>>

\* no record has been submitted
NoRecord ==
    /\ status = "Pending"
    /\ timestamp = [g \in 1..MaxSig |-> 0]
    /\ sent = [g \in 1..MaxWa |-> FALSE]
    /\ sent_id = [g \in 1..MaxWa |-> 0]
    /\ groups_signal = 0
    /\ groups_whatsapp = 0
    /\ app_manager = FALSE
    /\ whatsapp_client = FALSE
    /\ ui_tasks = {}
    /\ ui_pc = Idle
    /\ edit = FALSE
    /\ wa_tasks = << >>
    /\ ops = 0
    /\ crashed = FALSE
    /\ NoRoute

Init ==
    /\ signal_reciever = << >>
    /\ message_queue = << >>
    /\ abort_handle = None
    /\ link_abort = None
    /\ manager = FALSE
    /\ has_connected = FALSE
    /\ tasks = << >>
    /\ links = << >>
    /\ signal_state = "Unlinked"
    /\ issued = 0
    /\ next_job = 1
    /\ removed = {}
    /\ handled = [type |-> "none", arg |-> None, pop |-> None, before |-> "none"]
    /\ NoRecord

Next ==
    \/ Worker
    \/ \E t \in 1..Len(tasks) : TaskFinished(t)
    \/ \E l \in 1..Len(links) : LinkStart(l)
    \/ \E l \in 1..Len(links) : LinkNoInternet(l)
    \/ \E l \in 1..Len(links), ok \in BOOLEAN : LinkFinished(l, ok)
    \/ \E type \in ControlKinds : SendControl(type)
    \/ \E kind \in JobKinds : SendJob(kind)

Spec == Init /\ [][Next]_vars

\* The worker loop is polled whenever a message waits, and every spawned
\* task is polled until it completes (the LocalSet is fair); the
\* environment is under no obligation to send anything.
MaxTasks == 2 * MaxMsgs
FairSpec ==
    /\ Init /\ [][Next]_vars
    /\ WF_vars(Worker)
    /\ \A t \in 1..MaxTasks : WF_vars(TaskFinished(t))


(***************************************************************************)
(* Part 2 (specification SpecRecord): one DeliveryRecord shared by the UI  *)
(* thread (iced update handlers), the job tasks of the SignalWorker (one   *)
(* thread, atomic from one await to the next) and the WhatsApp tasks       *)
(* (Task::perform on the UI runtime, atomic from one await to the next).   *)
(* The status and the markers are atomics with Relaxed ordering: a         *)
(* set_status on the UI thread is a read of the count followed by a store, *)
(* and the other threads run between the two.                              *)
(***************************************************************************)

Statuses == {"Pending", "Sending", "Sent", "Failed", "Deleted"}

\* SendMessageInfo::sent_count over given markers
sent_count(ts, snt) ==
    Cardinality({g \in 1..groups_signal : ts[g] # 0})
    + Cardinality({g \in 1..groups_whatsapp : snt[g]})

\* SendMessageInfo::len
len == groups_signal + groups_whatsapp

\* (variant: Sent is stored whatever the count)
set_status_unguardedSent(cur, new, count) ==
    IF new = "Deleted" /\ count # 0
    THEN cur
    ELSE new

\* (variant: Deleted is stored whatever the count)
set_status_unguardedDeleted(cur, new, count) ==
    IF new = "Sent" /\ count # len
    THEN cur
    ELSE new

\* SendMessageInfo::set_status: the status stored in the end, from the
\* status before, the requested one and the count that was read
set_status(cur, new, count) ==
    IF \/ new = "Deleted" /\ count # 0
       \/ new = "Sent" /\ count # len
    THEN cur
    ELSE new

\* strong count of the Arc<SendMessageInfo>: the history or the edit slot,
\* every queued or travelling job, every live task, every undispatched message
owners ==
    (IF evicted.done THEN 0 ELSE 1)
      + Cardinality({i \in 1..Len(signal_reciever) :
                        signal_reciever[i].type \in JobKinds})
      + Len(message_queue)
      + Cardinality({t \in 1..Len(tasks) : tasks[t].st = "live"})
      + Cardinality({w \in 1..Len(wa_tasks) : wa_tasks[w].pc # "done"})
      + Cardinality(ui_tasks \ {"Notification"})

\* message_task!: the job's future returned, Finished goes on the channel
finish(t) ==
    /\ tasks' = [tasks EXCEPT ![t].st = "done", ![t].pc = "done"]
    /\ signal_reciever' = Append(signal_reciever, SignalMessage("Finished", t))

\* the task stays suspended at the send call of destination g
await_send(t, g) ==
    /\ tasks' = [tasks EXCEPT ![t].pc = "send", ![t].g = g]
    /\ UNCHANGED signal_reciever

\* the task panicked: tokio drops it, no Finished is sent
panic(t) ==
    /\ tasks' = [tasks EXCEPT ![t].st = "panicked"]
    /\ UNCHANGED signal_reciever

\* delete_message reads group.timestamp(..).unwrap() when it enters group g
enter_delete(t, g, ts) ==
    IF ts[g] = 0 THEN panic(t) ELSE await_send(t, g)

\* first poll of send_message / delete_message / edit_message (signal.rs)
SignalStart(t) ==
    /\ ~crashed
    /\ t \in 1..Len(tasks)
    /\ tasks[t].st = "live"
    /\ tasks[t].pc = "start"
    /\ LET kind == tasks[t].job.type
           s1 == set_status(status, "Sending", sent_count(timestamp, sent))
       IN  IF groups_signal = 0
           THEN /\ status' = set_status(s1, IF kind = "DeleteMessage"
                                            THEN "Deleted" ELSE "Sent",
                                        sent_count(timestamp, sent))
                /\ finish(t)
           ELSE /\ status' = s1
                /\ IF kind = "DeleteMessage"
                   THEN enter_delete(t, 1, timestamp)
                   ELSE await_send(t, 1)
    /\ UNCHANGED <<timestamp, sent, sent_id>>
    /\ UNCHANGED <<message_queue, abort_handle, link_abort, manager,
                   has_connected, links, signal_state, ghostVars>>
    /\ UNCHANGED <<groups_signal, groups_whatsapp, app_manager,
                   whatsapp_client, ui_tasks, ui_pc, edit, wa_tasks, ops, crashed>>

    /\ UNCHANGED routeVars
\* (variant: after an error the loop gives the destination up)
signal_err_giveUp(t) ==
    /\ status' = set_status(status, "Failed", sent_count(timestamp, sent))
    /\ UNCHANGED timestamp
    /\ IF tasks[t].g < groups_signal
       THEN await_send(t, tasks[t].g + 1)
       ELSE finish(t)

\* the call returned an error: the status becomes Failed, and after the
\* sleep the loop calls again for the same destination
signal_err(t) ==
    /\ status' = set_status(status, "Failed", sent_count(timestamp, sent))
    /\ UNCHANGED <<timestamp, tasks, signal_reciever>>

\* the call returned Ok: the marker is written (set_timestamp(now) for a
\* send or an edit, set_timestamp(0) for a delete), the status becomes
\* Sending, and the loop goes to the next destination or to the job's end
signal_ok(t) ==
    LET kind == tasks[t].job.type
        g == tasks[t].g
        ts == IF kind = "DeleteMessage"
              THEN [timestamp EXCEPT ![g] = 0]
              ELSE [timestamp EXCEPT ![g] = 1]
        s1 == set_status(status, "Sending", sent_count(ts, sent))
    IN  /\ timestamp' = ts
        /\ IF g < groups_signal
           THEN /\ status' = s1
                /\ IF kind = "DeleteMessage"
                   THEN enter_delete(t, g + 1, ts)
                   ELSE await_send(t, g + 1)
           ELSE /\ status' = set_status(s1, IF kind = "DeleteMessage"
                                            THEN "Deleted" ELSE "Sent",
                                        sent_count(ts, sent))
                /\ finish(t)

\* the backend call for destination g of the job in task t returned
SignalAttempt(t, ok) ==
    /\ ~crashed
    /\ t \in 1..Len(tasks)
    /\ tasks[t].st = "live"
    /\ tasks[t].pc = "send"
    /\ IF ok THEN signal_ok(t) ELSE signal_err(t)
    /\ UNCHANGED <<sent, sent_id>>
    /\ UNCHANGED <<message_queue, abort_handle, link_abort, manager,
                   has_connected, links, signal_state, ghostVars>>
    /\ UNCHANGED <<groups_signal, groups_whatsapp, app_manager,
                   whatsapp_client, ui_tasks, ui_pc, edit, wa_tasks, ops, crashed>>

    /\ UNCHANGED routeVars
\* whatsapp.rs: first poll of send_message / edit_message / delete_message
WhatsappStart(w) ==
    /\ ~crashed
    /\ w \in 1..Len(wa_tasks)
    /\ wa_tasks[w].pc = "start"
    /\ LET kind == wa_tasks[w].kind
           s1 == set_status(status, "Sending", sent_count(timestamp, sent))
       IN  IF kind = "delete"
           THEN /\ status' = s1
                /\ wa_tasks' = [wa_tasks EXCEPT ![w].pc = "reset"]
           ELSE IF groups_whatsapp = 0
           THEN /\ status' = set_status(s1, "Sent", sent_count(timestamp, sent))
                /\ wa_tasks' = [wa_tasks EXCEPT ![w].pc = "done"]
           ELSE /\ status' = s1
                /\ wa_tasks' = [wa_tasks EXCEPT ![w].pc = "send", ![w].g = 1]
    /\ UNCHANGED <<timestamp, sent, sent_id>>
    /\ UNCHANGED <<workerVars, ghostVars>>
    /\ UNCHANGED <<groups_signal, groups_whatsapp, app_manager,
                   whatsapp_client, ui_tasks, ui_pc, edit, ops, crashed>>

    /\ UNCHANGED routeVars
\* client.send_message / client.edit_message for destination g returned
WhatsappAttempt(w, ok) ==
    /\ ~crashed
    /\ w \in 1..Len(wa_tasks)
    /\ wa_tasks[w].pc = "send"
    /\ status' = set_status(status, IF ok THEN "Sending" ELSE "Failed",
                            sent_count(timestamp, sent))
    /\ wa_tasks' = [wa_tasks EXCEPT ![w].pc = IF ok THEN "ok" ELSE "send"]
    /\ UNCHANGED <<timestamp, sent, sent_id>>
    /\ UNCHANGED <<workerVars, ghostVars>>
    /\ UNCHANGED <<groups_signal, groups_whatsapp, app_manager,
                   whatsapp_client, ui_tasks, ui_pc, edit, ops, crashed>>

    /\ UNCHANGED routeVars
\* after the loop's break: group.set_id(message_id), then the next
\* destination or the final set_status(Sent)
WhatsappSetId(w) ==
    /\ ~crashed
    /\ w \in 1..Len(wa_tasks)
    /\ wa_tasks[w].pc = "ok"
    /\ LET g == wa_tasks[w].g
           snt == [sent EXCEPT ![g] = TRUE]
       IN  /\ sent' = snt
           /\ sent_id' = [sent_id EXCEPT ![g] = 1]
           /\ IF g < groups_whatsapp
              THEN /\ wa_tasks' = [wa_tasks EXCEPT ![w].pc = "send", ![w].g = g + 1]
                   /\ UNCHANGED status
              ELSE /\ wa_tasks' = [wa_tasks EXCEPT ![w].pc = "done"]
                   /\ status' = set_status(status, "Sent",
                                           sent_count(timestamp, snt))
    /\ UNCHANGED timestamp
    /\ UNCHANGED <<workerVars, ghostVars>>
    /\ UNCHANGED <<groups_signal, groups_whatsapp, app_manager,
                   whatsapp_client, ui_tasks, ui_pc, edit, ops, crashed>>

    /\ UNCHANGED routeVars
\* whatsapp.rs delete_message after its notification: every flag is
\* cleared, then set_status(Deleted)
WhatsappDelete(w) ==
    /\ ~crashed
    /\ w \in 1..Len(wa_tasks)
    /\ wa_tasks[w].pc = "reset"
    /\ LET snt == [g \in 1..MaxWa |-> FALSE]
       IN  /\ sent' = snt
           /\ status' = set_status(status, "Deleted", sent_count(timestamp, snt))
    /\ wa_tasks' = [wa_tasks EXCEPT ![w].pc = "done"]
    /\ UNCHANGED <<timestamp, sent_id>>
    /\ UNCHANGED <<workerVars, ghostVars>>
    /\ UNCHANGED <<groups_signal, groups_whatsapp, app_manager,
                   whatsapp_client, ui_tasks, ui_pc, edit, ops, crashed>>

    /\ UNCHANGED routeVars
\* ----------------------------------------------------------- UI thread

UiIdle == ~crashed /\ ui_pc.at = "idle"

\* a job message for the SignalWorker leaves the UI
to_signal(kind) ==
    /\ signal_reciever' = Append(signal_reciever, SignalMessage(kind, next_job))
    /\ next_job' = next_job + 1

spawn_whatsapp(kind) == Append(wa_tasks, [kind |-> kind, pc |-> "start", g |-> 1])

\* (variant: a record for a backend that is not linked is left as it is)
UiSendMessage_unchecked ==
    /\ UiIdle
    /\ "SendMessage" \in ui_tasks
    /\ ui_tasks' = ui_tasks \ {"SendMessage"}
    /\ UNCHANGED status
    /\ IF app_manager THEN to_signal("SendMessage")
       ELSE UNCHANGED <<signal_reciever, next_job>>
    /\ wa_tasks' = IF whatsapp_client THEN spawn_whatsapp("send")
                   ELSE wa_tasks
    /\ UNCHANGED <<message_queue, abort_handle, link_abort, manager,
                   has_connected, tasks, links, signal_state, issued, removed,
                   handled>>
    /\ UNCHANGED <<timestamp, sent, sent_id, groups_signal, groups_whatsapp,
                   app_manager, whatsapp_client, ui_pc, edit, ops, crashed>>
    /\ UNCHANGED routeVars

\* ui.rs App::update, Message::SendMessage: a backend that is not linked
\* and has destinations in the record makes the handler store Deleted and
\* return a notification alone (the task list built so far is dropped)
UiSendMessage ==
    /\ UiIdle
    /\ "SendMessage" \in ui_tasks
    /\ IF ~app_manager /\ groups_signal # 0
       THEN /\ status' = set_status(status, "Deleted", sent_count(timestamp, sent))
            /\ ui_tasks' = (ui_tasks \ {"SendMessage"}) \cup {"Notification"}
            /\ UNCHANGED <<signal_reciever, next_job, wa_tasks>>
       ELSE IF ~whatsapp_client /\ groups_whatsapp # 0
       THEN /\ status' = set_status(status, "Deleted", sent_count(timestamp, sent))
            /\ ui_tasks' = (ui_tasks \ {"SendMessage"}) \cup {"Notification"}
            /\ UNCHANGED <<signal_reciever, next_job, wa_tasks>>
       ELSE /\ UNCHANGED status
            /\ ui_tasks' = ui_tasks \ {"SendMessage"}
            /\ IF app_manager THEN to_signal("SendMessage")
               ELSE UNCHANGED <<signal_reciever, next_job>>
            /\ wa_tasks' = IF whatsapp_client THEN spawn_whatsapp("send")
                           ELSE wa_tasks
    /\ UNCHANGED <<message_queue, abort_handle, link_abort, manager,
                   has_connected, tasks, links, signal_state, issued, removed,
                   handled>>
    /\ UNCHANGED <<timestamp, sent, sent_id, groups_signal, groups_whatsapp,
                   app_manager, whatsapp_client, ui_pc, edit, ops, crashed>>
    /\ UNCHANGED routeVars

\* ui.rs App::update, Message::Notification: the text is shown
UiNotification ==
    /\ UiIdle
    /\ "Notification" \in ui_tasks
    /\ ui_tasks' = ui_tasks \ {"Notification"}
    /\ UNCHANGED <<workerVars, ghostVars>>
    /\ UNCHANGED <<status, timestamp, sent, sent_id, groups_signal,
                   groups_whatsapp, app_manager, whatsapp_client, ui_pc, edit,
                   wa_tasks, ops, crashed>>
    /\ UNCHANGED routeVars

\* main_screen.rs Message::Cancel, first half: set_status(Deleted) reads
\* the count (the button is offered while Sending or Failed)
UiCancelRead ==
    /\ UiIdle
    /\ ~edit
    /\ ~evicted.done
    /\ ops < MaxOps
    /\ status \in {"Sending", "Failed"}
    /\ ui_pc' = [at |-> "cancel", count |-> sent_count(timestamp, sent),
                new |-> "Deleted", old |-> status]
    /\ ops' = ops + 1
    /\ UNCHANGED <<workerVars, ghostVars>>
    /\ UNCHANGED <<status, timestamp, sent, sent_id, groups_signal,
                   groups_whatsapp, app_manager, whatsapp_client, ui_tasks,
                   edit, wa_tasks, crashed>>

    /\ UNCHANGED routeVars
\* main_screen.rs Message::Cancel, second half: the store, then
\* SignalMessage::Cancel goes to the worker
UiCancelStore ==
    /\ ~crashed
    /\ ui_pc.at = "cancel"
    /\ status' = set_status(status, "Deleted", ui_pc.count)
    /\ ui_pc' = Idle
    /\ signal_reciever' = Append(signal_reciever, SignalMessage("Cancel", None))
    /\ UNCHANGED <<message_queue, abort_handle, link_abort, manager,
                   has_connected, tasks, links, signal_state, ghostVars>>
    /\ UNCHANGED <<timestamp, sent, sent_id, groups_signal, groups_whatsapp,
                   app_manager, whatsapp_client, ui_tasks, edit, wa_tasks,
                   ops, crashed>>

    /\ UNCHANGED routeVars
\* main_screen.rs Message::RefreshMessage
UiRefreshMessage ==
    /\ UiIdle
    /\ ~edit
    /\ ~evicted.done
    /\ ops < MaxOps
    /\ status \in {"Sending", "Failed"}
    /\ status' = set_status(status, "Sending", sent_count(timestamp, sent))
    /\ ops' = ops + 1
    /\ UNCHANGED <<workerVars, ghostVars>>
    /\ UNCHANGED <<timestamp, sent, sent_id, groups_signal, groups_whatsapp,
                   app_manager, whatsapp_client, ui_tasks, ui_pc, edit,
                   wa_tasks, crashed>>

    /\ UNCHANGED routeVars
\* main_screen.rs Message::DeleteMessage(idx) (offered while Sent)
UiDeletePressed ==
    /\ UiIdle
    /\ ~edit
    /\ ~evicted.done
    /\ ops < MaxOps
    /\ status = "Sent"
    /\ ui_tasks' = ui_tasks \cup {"DeleteMessage"}
    /\ ops' = ops + 1
    /\ UNCHANGED <<workerVars, ghostVars>>
    /\ UNCHANGED <<status, timestamp, sent, sent_id, groups_signal,
                   groups_whatsapp, app_manager, whatsapp_client, ui_pc, edit,
                   wa_tasks, crashed>>

    /\ UNCHANGED routeVars
\* ui.rs App::update, Message::DeleteMessage
UiDeleteMessage ==
    /\ UiIdle
    /\ "DeleteMessage" \in ui_tasks
    /\ ui_tasks' = ui_tasks \ {"DeleteMessage"}
    /\ status' = set_status(status, "Pending", sent_count(timestamp, sent))
    /\ IF app_manager THEN to_signal("DeleteMessage")
       ELSE UNCHANGED <<signal_reciever, next_job>>
    /\ wa_tasks' = IF whatsapp_client THEN spawn_whatsapp("delete") ELSE wa_tasks
    /\ UNCHANGED <<message_queue, abort_handle, link_abort, manager,
                   has_connected, tasks, links, signal_state, issued, removed,
                   handled>>
    /\ UNCHANGED <<timestamp, sent, sent_id, groups_signal, groups_whatsapp,
                   app_manager, whatsapp_client, ui_pc, edit, ops, crashed>>

    /\ UNCHANGED routeVars
\* main_screen.rs Message::EditMessage(idx) (offered while Sent): the
\* record moves from message_history to MainScreen.edit
UiEditPressed ==
    /\ UiIdle
    /\ ~edit
    /\ ~evicted.done
    /\ ops < MaxOps
    /\ status = "Sent"
    /\ edit' = TRUE
    /\ ops' = ops + 1
    /\ UNCHANGED <<workerVars, ghostVars>>
    /\ UNCHANGED <<status, timestamp, sent, sent_id, groups_signal,
                   groups_whatsapp, app_manager, whatsapp_client, ui_tasks,
                   ui_pc, wa_tasks, crashed>>

    /\ UNCHANGED routeVars
\* main_screen.rs Message::CancelEdit
UiCancelEdit ==
    /\ UiIdle
    /\ edit
    /\ edit' = FALSE
    /\ UNCHANGED <<workerVars, ghostVars>>
    /\ UNCHANGED <<status, timestamp, sent, sent_id, groups_signal,
                   groups_whatsapp, app_manager, whatsapp_client, ui_tasks,
                   ui_pc, wa_tasks, ops, crashed>>

    /\ UNCHANGED routeVars
\* main_screen.rs Message::ConfirmEdit: Arc::get_mut(..).unwrap(), the
\* timestamps are swapped to 0, the WhatsApp ids are taken (the sent flags
\* are not touched), the status becomes Pending
UiConfirmEdit ==
    /\ UiIdle
    /\ edit
    /\ IF owners # 1
       THEN /\ crashed' = TRUE
            /\ UNCHANGED <<status, timestamp, sent_id, ui_tasks, edit>>
       ELSE /\ timestamp' = [g \in 1..MaxSig |-> 0]
            /\ sent_id' = [g \in 1..MaxWa |-> 0]
            /\ status' = set_status(status, "Pending",
                                    sent_count(timestamp', sent))
            /\ ui_tasks' = ui_tasks \cup {"EditMessage"}
            /\ edit' = FALSE
            /\ UNCHANGED crashed
    /\ UNCHANGED <<workerVars, ghostVars>>
    /\ UNCHANGED <<sent, groups_signal, groups_whatsapp, app_manager,
                   whatsapp_client, ui_pc, wa_tasks, ops>>

    /\ UNCHANGED routeVars
\* ui.rs App::update, Message::EditMessage
UiEditMessage ==
    /\ UiIdle
    /\ "EditMessage" \in ui_tasks
    /\ ui_tasks' = ui_tasks \ {"EditMessage"}
    /\ IF app_manager THEN to_signal("EditMessage")
       ELSE UNCHANGED <<signal_reciever, next_job>>
    /\ wa_tasks' = IF whatsapp_client THEN spawn_whatsapp("edit") ELSE wa_tasks
    /\ UNCHANGED <<message_queue, abort_handle, link_abort, manager,
                   has_connected, tasks, links, signal_state, issued, removed,
                   handled>>
    /\ UNCHANGED <<status, timestamp, sent, sent_id, groups_signal,
                   groups_whatsapp, app_manager, whatsapp_client, ui_pc, edit,
                   ops, crashed>>

    /\ UNCHANGED routeVars
\* a control message reaches the worker while the record is being
\* delivered (ui.rs App::update, Message::SignalMessage)
UiSignalMessage(type) ==
    /\ UiIdle
    /\ ops < MaxOps
    /\ ops' = ops + 1
    /\ signal_reciever' = Append(signal_reciever, SignalMessage(type, None))
    /\ UNCHANGED <<message_queue, abort_handle, link_abort, manager,
                   has_connected, tasks, links, signal_state, ghostVars>>
    /\ UNCHANGED <<status, timestamp, sent, sent_id, groups_signal,
                   groups_whatsapp, app_manager, whatsapp_client, ui_tasks,
                   ui_pc, edit, wa_tasks, crashed>>

    /\ UNCHANGED routeVars
\* A record has just been built by main_screen.rs Message::SendMessage
\* (status Pending, no marker set, in message_history) and
\* ui::Message::SendMessage waits to be dispatched; each backend is linked
\* or not.
\* (variant: the record popped from the history has its job cancelled)
UiEvict_cancelling ==
    /\ UiIdle
    /\ ~edit
    /\ ~evicted.done
    /\ evicted' = [done |-> TRUE, count |-> sent_count(timestamp, sent)]
    /\ signal_reciever' = Append(signal_reciever, SignalMessage("Cancel", None))
    /\ UNCHANGED <<message_queue, abort_handle, link_abort, manager,
                   has_connected, tasks, links, signal_state, ghostVars>>
    /\ UNCHANGED recVars
    /\ UNCHANGED <<categories, groups, network, resolved, acceptVars, histVars,
                   bodyVars, group_modes, send_loops, moreVars>>

\* main_screen.rs, the pop_back before a push_front (a later record is
\* sent, or an edit of another record ends, with the history full and this
\* record at its back): the history drops its reference to the record
UiEvict ==
    /\ UiIdle
    /\ ~edit
    /\ ~evicted.done
    /\ evicted' = [done |-> TRUE, count |-> sent_count(timestamp, sent)]
    /\ UNCHANGED <<workerVars, ghostVars>>
    /\ UNCHANGED recVars
    /\ UNCHANGED <<categories, groups, network, resolved, acceptVars, histVars,
                   bodyVars, group_modes, send_loops, moreVars>>

InitRecord ==
    /\ signal_reciever = << >>
    /\ message_queue = << >>
    /\ abort_handle = None
    /\ tasks = << >>
    /\ \E linked \in BOOLEAN :
          /\ manager = linked
          /\ has_connected = linked
          /\ app_manager = linked
          /\ links = IF linked THEN <<"done">> ELSE << >>
          /\ link_abort = IF linked THEN 1 ELSE None
          /\ signal_state = IF linked THEN "Linked" ELSE "Unlinked"
    /\ issued = 0
    /\ next_job = 1
    /\ removed = {}
    /\ handled = [type |-> "none", arg |-> None, pop |-> None, before |-> "none"]
    /\ status = "Pending"
    /\ timestamp = [g \in 1..MaxSig |-> 0]
    /\ sent = [g \in 1..MaxWa |-> FALSE]
    /\ sent_id = [g \in 1..MaxWa |-> 0]
    /\ groups_signal \in 0..MaxSig
    /\ groups_whatsapp \in 0..MaxWa
    /\ whatsapp_client \in BOOLEAN
    /\ ui_tasks = {"SendMessage"}
    /\ ui_pc = Idle
    /\ edit = FALSE
    /\ wa_tasks = << >>
    /\ ops = 0
    /\ crashed = FALSE

    /\ NoRoute
\* (a panic of the UI thread ends the process: no action is enabled then)
NextRecord ==
    \/ Worker
    \/ \E t \in 1..Len(tasks) : SignalStart(t)
    \/ \E t \in 1..Len(tasks), ok \in BOOLEAN : SignalAttempt(t, ok)
    \/ \E w \in 1..Len(wa_tasks) : WhatsappStart(w)
    \/ \E w \in 1..Len(wa_tasks), ok \in BOOLEAN : WhatsappAttempt(w, ok)
    \/ \E w \in 1..Len(wa_tasks) : WhatsappSetId(w)
    \/ \E w \in 1..Len(wa_tasks) : WhatsappDelete(w)
    \/ UiSendMessage
    \/ UiNotification
    \/ UiEvict
    \/ UiCancelRead
    \/ UiCancelStore
    \/ UiRefreshMessage
    \/ UiDeletePressed
    \/ UiDeleteMessage
    \/ UiEditPressed
    \/ UiCancelEdit
    \/ UiConfirmEdit
    \/ UiEditMessage
    \/ \E l \in 1..Len(links) : LinkStart(l)
    \/ \E l \in 1..Len(links), ok \in BOOLEAN : LinkFinished(l, ok)
    \/ \E type \in ControlKinds \ {"Cancel"} : UiSignalMessage(type)

SpecRecord == InitRecord /\ [][NextRecord]_vars

\* manager.send_message_to_group(..).await of send_message_inner never
\* resolves (the connection stalls without an error): the task stays
\* suspended in that await; nothing in send_message_inner or in the loop of
\* send_message races the call against a timer
SignalHang(t) ==
    /\ ~crashed
    /\ t \in 1..Len(tasks)
    /\ tasks[t].st = "live"
    /\ tasks[t].pc = "send"
    /\ tasks[t].job.type = "SendMessage"
    /\ tasks' = [tasks EXCEPT ![t].pc = "hung"]
    /\ UNCHANGED <<signal_reciever, message_queue, abort_handle, link_abort,
                   manager, has_connected, links, signal_state, ghostVars>>
    /\ UNCHANGED <<recVars, routeVars>>

NextHang ==
    \/ NextRecord
    \/ \E t \in 1..Len(tasks) : SignalHang(t)

\* SpecRecord with backend calls that may stall; the worker loop and every
\* spawned task are polled whenever they can make a step
FairHang ==
    /\ InitRecord /\ [][NextHang]_vars
    /\ WF_vars(Worker)
    /\ \A t \in 1..MaxTasks :
          /\ WF_vars(SignalStart(t))
          /\ WF_vars(\E ok \in BOOLEAN : SignalAttempt(t, ok))


(***************************************************************************)
(* Part 3 (specification SpecSetStatus): SendMessageInfo::set_status as a  *)
(* function of the record it is called on.  The record is any record: any  *)
(* status, any number of destinations, any markers; one thread calls       *)
(* set_status with any requested status.  ui_pc keeps the last call.       *)
(***************************************************************************)

SetStatus(new) ==
    /\ ui_pc.at \in {"idle", "done"}
    /\ status' = set_status(status, new, sent_count(timestamp, sent))
    /\ ui_pc' = [at |-> "done", count |-> sent_count(timestamp, sent),
                 new |-> new, old |-> status]
    /\ UNCHANGED <<timestamp, sent, sent_id, groups_signal, groups_whatsapp,
                   app_manager, whatsapp_client, ui_tasks, edit, wa_tasks,
                   ops, crashed>>
    /\ UNCHANGED <<workerVars, ghostVars>>

    /\ UNCHANGED routeVars
InitSetStatus ==
    /\ signal_reciever = << >>
    /\ message_queue = << >>
    /\ abort_handle = None
    /\ link_abort = None
    /\ manager = FALSE
    /\ has_connected = FALSE
    /\ tasks = << >>
    /\ links = << >>
    /\ signal_state = "Unlinked"
    /\ issued = 0
    /\ next_job = 1
    /\ removed = {}
    /\ handled = [type |-> "none", arg |-> None, pop |-> None, before |-> "none"]
    /\ status \in Statuses
    /\ groups_signal \in 0..MaxSig
    /\ groups_whatsapp \in 0..MaxWa
    /\ timestamp \in [1..MaxSig -> {0, 1}]
    /\ \A g \in 1..MaxSig : g > groups_signal => timestamp[g] = 0
    /\ sent \in [1..MaxWa -> BOOLEAN]
    /\ \A g \in 1..MaxWa : g > groups_whatsapp => ~sent[g]
    /\ sent_id = [g \in 1..MaxWa |-> IF sent[g] THEN 1 ELSE 0]
    /\ app_manager = FALSE
    /\ whatsapp_client = FALSE
    /\ ui_tasks = {}
    /\ ui_pc = Idle
    /\ edit = FALSE
    /\ wa_tasks = << >>
    /\ ops = 0
    /\ crashed = FALSE

    /\ NoRoute
NextSetStatus == \E new \in Statuses : SetStatus(new)

SpecSetStatus == InitSetStatus /\ [][NextSetStatus]_vars


(***************************************************************************)
(* Part 4 (specification SpecRoute): the routing tables of AppData and the *)
(* resolution of the destinations of a submitted message                   *)
(* (main_screen.rs Message::SendMessage).  The operator edits the          *)
(* categories and the global groups on the category screen, then one       *)
(* message with or without a network tag is submitted.                     *)
(***************************************************************************)

\* SendMode::active
active(mode) == mode # "Off"

\* SendMode::update(&mut self, other): the value of self afterwards.  Its
\* body is not among the sources; the later value replaces the earlier one
update(self, other) == other

\* SendCategory::contains_network (body not among the sources)
contains_network(category, net) == net \in category.networks

\* SendCategory::new
new_category ==
    [networks |-> {}, groups |-> [key \in Dests |-> NoEntry],
     use_general |-> FALSE]

\* the tables can be edited until the message is submitted
Editing == ~resolved.done

\* category_screen.rs Message::AddCategory (with a name typed in)
AddCategory ==
    /\ Editing
    /\ Len(categories) < MaxCats
    /\ categories' = Append(categories, new_category)
    /\ UNCHANGED <<groups, network, resolved>>
    /\ UNCHANGED <<workerVars, ghostVars, recVars, acceptVars, laterVars>>

\* category_screen.rs Message::ToggleGroup: category.groups.insert(key, mode)
ToggleGroup(index, key, send_mode) ==
    /\ Editing
    /\ index \in 1..Len(categories)
    /\ categories' = [categories EXCEPT ![index].groups[key] = send_mode]
    /\ UNCHANGED <<groups, network, resolved>>
    /\ UNCHANGED <<workerVars, ghostVars, recVars, acceptVars, laterVars>>

\* category_screen.rs Message::ToggleNetwork
ToggleNetwork(index, net, state) ==
    /\ Editing
    /\ index \in 1..Len(categories)
    /\ categories' = [categories EXCEPT ![index].networks =
                         IF state THEN @ \cup {net} ELSE @ \ {net}]
    /\ UNCHANGED <<groups, network, resolved>>
    /\ UNCHANGED <<workerVars, ghostVars, recVars, acceptVars, laterVars>>

\* category_screen.rs Message::ToggleUseGeneral
ToggleUseGeneral(index, state) ==
    /\ Editing
    /\ index \in 1..Len(categories)
    /\ categories' = [categories EXCEPT ![index].use_general = state]
    /\ UNCHANGED <<groups, network, resolved>>
    /\ UNCHANGED <<workerVars, ghostVars, recVars, acceptVars, laterVars>>

\* category_screen.rs Message::ToggleGeneralGroup
ToggleGeneralGroup(key, send_mode) ==
    /\ Editing
    /\ groups' = [groups EXCEPT ![key] = send_mode]
    /\ UNCHANGED <<categories, network, resolved>>
    /\ UNCHANGED <<workerVars, ghostVars, recVars, acceptVars, laterVars>>

\* (variant: the general groups are pushed whether active or not)
general_all(grps) == [key \in Dests |-> grps[key]]

\* "Getting general": every globally active destination, global SendMode
general(grps) ==
    [key \in Dests |-> IF active(grps[key]) THEN grps[key] ELSE NoEntry]

\* the loop over data.categories: acc is the local map `groups` and the
\* local flag `use_general`.  In and_modify(|mode| mode.update(*mode)) the
\* closure's parameter hides the loop's `mode`: the entry is updated with
\* its own value
RECURSIVE merge_categories(_, _, _)
merge_categories(net, cats, acc) ==
    IF cats = << >> THEN acc
    ELSE LET category == Head(cats)
             merged ==
                 [groups |->
                     [key \in Dests |->
                         IF category.groups[key] = NoEntry
                         THEN acc.groups[key]
                         ELSE IF acc.groups[key] # NoEntry
                         THEN update(acc.groups[key], acc.groups[key])
                         ELSE category.groups[key]],
                  use_general |-> acc.use_general \/ category.use_general]
         IN  merge_categories(net, Tail(cats),
                 IF contains_network(category, net) THEN merged ELSE acc)

\* the use_general loop over data.groups
with_general(map, grps) ==
    [key \in Dests |->
        IF ~active(grps[key]) THEN map[key]
        ELSE IF map[key] # NoEntry THEN update(map[key], grps[key])
        ELSE grps[key]]

\* main_screen.rs Message::SendMessage: the destinations pushed into the
\* new SendMessageInfo, each with its SendMode (NoEntry: not pushed)
resolve(net, cats, grps) ==
    IF net = None THEN general(grps)
    ELSE LET acc == merge_categories(net, cats,
                        [groups |-> [key \in Dests |-> NoEntry],
                         use_general |-> FALSE])
         IN  IF \E key \in Dests : acc.groups[key] # NoEntry
             THEN IF acc.use_general
                  THEN with_general(acc.groups, grps)
                  ELSE acc.groups
             ELSE general(grps)

\* a message with network tag net (None: no tag) is submitted
RouteSendMessage(net) ==
    /\ Editing
    /\ network' = net
    /\ resolved' = [done |-> TRUE, map |-> resolve(net, categories, groups)]
    /\ UNCHANGED <<categories, groups>>
    /\ UNCHANGED <<workerVars, ghostVars, recVars, acceptVars, laterVars>>

InitRoute ==
    /\ signal_reciever = << >>
    /\ message_queue = << >>
    /\ abort_handle = None
    /\ link_abort = None
    /\ manager = FALSE
    /\ has_connected = FALSE
    /\ tasks = << >>
    /\ links = << >>
    /\ signal_state = "Unlinked"
    /\ issued = 0
    /\ next_job = 1
    /\ removed = {}
    /\ handled = [type |-> "none", arg |-> None, pop |-> None, before |-> "none"]
    /\ NoRecord

NextRoute ==
    \/ AddCategory
    \/ \E index \in 1..MaxCats, key \in Dests, send_mode \in Modes :
          ToggleGroup(index, key, send_mode)
    \/ \E index \in 1..MaxCats, net \in Networks, state \in BOOLEAN :
          ToggleNetwork(index, net, state)
    \/ \E index \in 1..MaxCats, state \in BOOLEAN :
          ToggleUseGeneral(index, state)
    \/ \E key \in Dests, send_mode \in Modes :
          ToggleGeneralGroup(key, send_mode)
    \/ \E net \in {None} \cup Networks : RouteSendMessage(net)

SpecRoute == InitRoute /\ [][NextRoute]_vars

(***************************************************************************)
(* Part 5 (specification SpecAccept): the message server's POST handler    *)
(* (message_server.rs start_server) and the UI's handling of the accepted  *)
(* messages (ui.rs Message::AcceptMessage, main_screen.rs NextMessage and  *)
(* SendMessagePressed).  A body is a sequence of tokens: "msg" stands for  *)
(* a well-formed message object, "junk" for anything else; the body is a   *)
(* JSON array of messages iff every token is "msg".                        *)
(***************************************************************************)

Tokens == {"msg", "junk"}
Bodies == UNION {[1..n -> Tokens] : n \in 0..MaxBody}

\* serde_json::from_str::<Vec<OperatorMessage>>(&s).is_ok()
from_str_ok(s) == \A i \in 1..Len(s) : s[i] = "msg"

\* impl From<OperatorMessage> for AcceptedMessage: the formatted text,
\* frequency and network taken from the message
from_operator(token) ==
    [text |-> [kind |-> "formatted", body |-> <<token>>],
     freq |-> TRUE, network |-> TRUE, autosend_overwrite |-> FALSE]

\* impl From<String> for AcceptedMessage
from_string(s) ==
    [text |-> [kind |-> "raw", body |-> s],
     freq |-> FALSE, network |-> FALSE, autosend_overwrite |-> FALSE]

\* (variant: the freeform message is not marked)
accepted_unmarked(s) ==
    IF from_str_ok(s)
    THEN [i \in 1..Len(s) |-> from_operator(s[i])]
    ELSE <<from_string(s)>>

\* the match in the POST handler: the messages of the body, or the whole
\* body as one message with autosend_overwrite set
accepted(s) ==
    IF from_str_ok(s)
    THEN [i \in 1..Len(s) |-> from_operator(s[i])]
    ELSE <<[from_string(s) EXCEPT !.autosend_overwrite = TRUE]>>

\* the POST handler
Post(s) ==
    /\ posts < MaxPosts
    /\ posts' = posts + 1
    /\ request' = s
    /\ msg_send_channel' = Append(msg_send_channel, accepted(s))
    /\ response' = "OK"
    /\ UNCHANGED <<autosend, main_scr_queue, cur_message, next_tasks, sends,
                   presses>>
    /\ UNCHANGED <<categories, groups, network, resolved>>
    /\ UNCHANGED <<workerVars, ghostVars, recVars, laterVars>>

\* the fold in Message::AcceptMessage
fold_autosend(init, messages) ==
    init /\ \A i \in 1..Len(messages) : ~messages[i].autosend_overwrite

\* ui.rs App::update, Message::AcceptMessage
UiAcceptMessage ==
    /\ msg_send_channel # << >>
    /\ msg_send_channel' = Tail(msg_send_channel)
    /\ LET messages == Head(msg_send_channel)
       IN  IF fold_autosend(autosend, messages)
           THEN /\ sends' = sends \o [i \in 1..Len(messages) |->
                                        [text |-> messages[i].text,
                                         auto |-> TRUE]]
                /\ UNCHANGED <<main_scr_queue, next_tasks>>
           ELSE /\ main_scr_queue' = main_scr_queue \o messages
                /\ next_tasks' = IF cur_message = << >> THEN next_tasks + 1
                                 ELSE next_tasks
                /\ UNCHANGED sends
    /\ UNCHANGED <<autosend, cur_message, request, response, posts, presses>>
    /\ UNCHANGED <<categories, groups, network, resolved>>
    /\ UNCHANGED <<workerVars, ghostVars, recVars, laterVars>>

\* main_screen.rs Message::NextMessage: Vec::pop takes the last element
UiNextMessage ==
    /\ next_tasks > 0
    /\ next_tasks' = next_tasks - 1
    /\ IF main_scr_queue = << >>
       THEN /\ cur_message' = << >>
            /\ UNCHANGED main_scr_queue
       ELSE /\ cur_message' = <<main_scr_queue[Len(main_scr_queue)]>>
            /\ main_scr_queue' =
                  SubSeq(main_scr_queue, 1, Len(main_scr_queue) - 1)
    /\ UNCHANGED <<autosend, msg_send_channel, sends, request, response,
                   posts, presses>>
    /\ UNCHANGED <<categories, groups, network, resolved>>
    /\ UNCHANGED <<workerVars, ghostVars, recVars, laterVars>>

\* main_screen.rs Message::SendMessagePressed: the message under review
\* (or the typed text) is sent, the next one is asked for
SendMessagePressed ==
    /\ presses < MaxOps
    /\ presses' = presses + 1
    /\ sends' = Append(sends,
                  [text |-> IF cur_message # << >> THEN cur_message[1].text
                            ELSE [kind |-> "typed", body |-> << >>],
                   auto |-> FALSE])
    /\ cur_message' = << >>
    /\ next_tasks' = next_tasks + 1
    /\ UNCHANGED <<autosend, msg_send_channel, main_scr_queue, request,
                   response, posts>>
    /\ UNCHANGED <<categories, groups, network, resolved>>
    /\ UNCHANGED <<workerVars, ghostVars, recVars, laterVars>>

\* main_screen.rs Message::SetAutoSend
SetAutoSend(state) ==
    /\ autosend' = state
    /\ UNCHANGED <<msg_send_channel, main_scr_queue, cur_message, next_tasks,
                   sends, request, response, posts, presses>>
    /\ UNCHANGED <<categories, groups, network, resolved>>
    /\ UNCHANGED <<workerVars, ghostVars, recVars, laterVars>>

InitAccept == InitRoute

NextAccept ==
    \/ \E s \in Bodies : Post(s)
    \/ UiAcceptMessage
    \/ UiNextMessage
    \/ SendMessagePressed
    \/ \E state \in BOOLEAN : SetAutoSend(state)

SpecAccept == InitAccept /\ [][NextAccept]_vars

(***************************************************************************)
(* Part 6 (specification SpecHistory): the history list of the main screen *)
(* (MainScreen.message_history) and its size limit (AppData.history_len).  *)
(* Records are identified by the order of their creation.                  *)
(***************************************************************************)

notHist == <<workerVars, ghostVars, recVars, categories, groups, network,
             resolved, acceptVars, evicted, bodyVars, group_modes,
             send_loops, moreVars>>

\* if message_history.len() >= history_len { pop_back() }; push_front(message)
push_history(history, limit, message) ==
    <<message>> \o (IF Len(history) >= limit /\ history # << >>
                    THEN SubSeq(history, 1, Len(history) - 1)
                    ELSE history)

\* what that pop_back removed
pop_back(history, limit) ==
    IF Len(history) >= limit /\ history # << >>
    THEN history[Len(history)] ELSE None

\* main_screen.rs Message::SendMessage: the new record enters the history
HistSendMessage ==
    /\ next_rec <= MaxRecs
    /\ message_history' = push_history(message_history, history_len, next_rec)
    /\ popped' = pop_back(message_history, history_len)
    /\ next_rec' = next_rec + 1
    /\ UNCHANGED <<history_len, editing>>
    /\ UNCHANGED notHist

\* main_screen.rs Message::EditMessage(idx): the record leaves the history
\* for MainScreen.edit, or is swapped with the record already there
HistEditMessage(idx) ==
    /\ idx \in 1..Len(message_history)
    /\ IF editing # None
       THEN /\ editing' = message_history[idx]
            /\ message_history' = [message_history EXCEPT ![idx] = editing]
       ELSE /\ editing' = message_history[idx]
            /\ message_history' =
                  SubSeq(message_history, 1, idx - 1)
                  \o SubSeq(message_history, idx + 1, Len(message_history))
    /\ popped' = None
    /\ UNCHANGED <<history_len, next_rec>>
    /\ UNCHANGED notHist

\* main_screen.rs Message::CancelEdit
HistCancelEdit ==
    /\ editing # None
    /\ message_history' = push_history(message_history, history_len, editing)
    /\ popped' = pop_back(message_history, history_len)
    /\ editing' = None
    /\ UNCHANGED <<history_len, next_rec>>
    /\ UNCHANGED notHist

\* main_screen.rs Message::ConfirmEdit
HistConfirmEdit ==
    /\ editing # None
    /\ message_history' = push_history(message_history, history_len, editing)
    /\ popped' = pop_back(message_history, history_len)
    /\ editing' = None
    /\ UNCHANGED <<history_len, next_rec>>
    /\ UNCHANGED notHist

\* settings_screen.rs Message::HistoryLenEdit with a text that parses
HistoryLenEdit(num) ==
    /\ history_len' = num
    /\ popped' = None
    /\ UNCHANGED <<message_history, editing, next_rec>>
    /\ UNCHANGED notHist

InitHistory == InitRoute

NextHistory ==
    \/ HistSendMessage
    \/ \E idx \in 1..MaxRecs : HistEditMessage(idx)
    \/ HistCancelEdit
    \/ HistConfirmEdit
    \/ \E num \in 0..MaxLimit : HistoryLenEdit(num)

SpecHistory == InitHistory /\ [][NextHistory]_vars

(***************************************************************************)
(* Part 7 (specification SpecBody): the content built for each destination *)
(* of a record (signal.rs send_message_inner, whatsapp.rs send_message).   *)
(* A content is a sequence of tokens: "a" is a piece of text, "B" a bold   *)
(* marker of the operator's markdown; the frequency string is the token    *)
(* "f", the line break "nl".  freq is << >> (None) or <<"f">>.             *)
(***************************************************************************)

notBody == <<workerVars, ghostVars, recVars, categories, groups, network,
             resolved, acceptVars, histVars, evicted, group_modes,
             send_loops, moreVars>>

Contents == UNION {[1..n -> {"a", "B"}] : n \in 1..MaxContent}

\* message/format.rs construct_ranges: the text parts joined, the markers
\* turned into body ranges
parse_message_with_format(message) ==
    SelectSeq(message, LAMBDA tok : tok # "B")

\* message/format.rs parse_message_with_whatsapp_format: the markers
\* replaced by WhatsApp's
parse_message_with_whatsapp_format(message) ==
    [i \in 1..Len(message) |-> IF message[i] = "B" THEN "*" ELSE message[i]]

\* the content before the frequency is put in front: parsed when markdown
\* is on and the parser accepts the text, else as typed
rendered_signal(message, markdown, parse_ok) ==
    IF markdown /\ parse_ok THEN parse_message_with_format(message)
    ELSE message

rendered_whatsapp(message, markdown, parse_ok) ==
    IF markdown /\ parse_ok THEN parse_message_with_whatsapp_format(message)
    ELSE message

\* (variant: the frequency is put in front whatever the SendMode)
signal_body_always(send_mode, freq, message, markdown, parse_ok) ==
    IF freq # << >>
    THEN <<freq[1], "nl">> \o rendered_signal(message, markdown, parse_ok)
    ELSE rendered_signal(message, markdown, parse_ok)

\* signal.rs send_message_inner: DataMessage.body
signal_body(send_mode, freq, message, markdown, parse_ok) ==
    IF send_mode = "Frequency" /\ freq # << >>
    THEN <<freq[1], "nl">> \o rendered_signal(message, markdown, parse_ok)
    ELSE rendered_signal(message, markdown, parse_ok)

\* whatsapp.rs send_message: wa::Message.conversation
whatsapp_body(send_mode, freq, message, markdown, parse_ok) ==
    IF send_mode = "Frequency" /\ freq # << >>
    THEN <<freq[1], "nl">> \o rendered_whatsapp(message, markdown, parse_ok)
    ELSE rendered_whatsapp(message, markdown, parse_ok)

\* SendMessageInfo::new and the pushes of main_screen.rs SendMessage
NewInfo(content, freq, markdown, parse_ok, signal, whatsapp) ==
    /\ ~info.made
    /\ info' = [made |-> TRUE, content |-> content, freq |-> freq,
                markdown |-> markdown, parse_ok |-> parse_ok,
                signal |-> signal, whatsapp |-> whatsapp]
    /\ UNCHANGED <<body_signal, body_whatsapp>>
    /\ UNCHANGED notBody

\* signal.rs send_message_inner for destination g, up to the send call
BuildSignal(g) ==
    /\ info.made
    /\ ~body_signal[g].built
    /\ body_signal' = [body_signal EXCEPT ![g] =
          [built |-> TRUE,
           body |-> signal_body(info.signal[g], info.freq, info.content,
                                info.markdown, info.parse_ok)]]
    /\ UNCHANGED <<info, body_whatsapp>>
    /\ UNCHANGED notBody

\* whatsapp.rs send_message for destination g, up to the send call
BuildWhatsapp(g) ==
    /\ info.made
    /\ ~body_whatsapp[g].built
    /\ body_whatsapp' = [body_whatsapp EXCEPT ![g] =
          [built |-> TRUE,
           body |-> whatsapp_body(info.whatsapp[g], info.freq, info.content,
                                  info.markdown, info.parse_ok)]]
    /\ UNCHANGED <<info, body_signal>>
    /\ UNCHANGED notBody

InitBody == InitRoute

NextBody ==
    \/ \E content \in Contents, freq \in {<< >>, <<"f">>},
          markdown \in BOOLEAN, parse_ok \in BOOLEAN,
          signal \in [1..MaxSig -> Modes], whatsapp \in [1..MaxWa -> Modes] :
          NewInfo(content, freq, markdown, parse_ok, signal, whatsapp)
    \/ \E g \in 1..MaxSig : BuildSignal(g)
    \/ \E g \in 1..MaxWa : BuildWhatsapp(g)

SpecBody == InitBody /\ [][NextBody]_vars

(***************************************************************************)
(* Part 8 (specification SpecMode): the SendMode of the groups listed on   *)
(* the main screen, cycled by the operator's toggle                        *)
(* (main_screen.rs SetGroups, ToggleGroup with send_mode.next()).          *)
(***************************************************************************)

notMode == <<workerVars, ghostVars, recVars, categories, groups, network,
             resolved, acceptVars, histVars, evicted, bodyVars, send_loops,
             sync_tasks, par>>

\* (variant: Frequency is the last stop)
next_stuck(self) ==
    CASE self = "Off" -> "Normal"
      [] self = "Normal" -> "Frequency"
      [] self = "Frequency" -> "Frequency"

\* SendMode::next
next(self) ==
    CASE self = "Off" -> "Normal"
      [] self = "Normal" -> "Frequency"
      [] self = "Frequency" -> "Off"

\* the lists a SetGroups message can carry
GroupLists == [1..MaxKeys -> {None} \cup 1..MaxTitles]

\* (variant: insert in place of entry(..).or_insert(..))
SetGroups_insert(grps) ==
    /\ group_modes' = [key \in 1..MaxKeys |->
                          IF grps[key] # None THEN <<"Off">>
                          ELSE group_modes[key]]
    /\ titles' = [key \in 1..MaxKeys |->
                     IF grps[key] # None THEN grps[key] ELSE titles[key]]
    /\ set_groups' = grps
    /\ UNCHANGED notMode

\* main_screen.rs Message::SetGroups: a listed group that is not yet known
\* enters with the listed title and SendMode Off
SetGroups(grps) ==
    /\ group_modes' = [key \in 1..MaxKeys |->
                          IF grps[key] # None /\ group_modes[key] = << >>
                          THEN <<"Off">> ELSE group_modes[key]]
    /\ titles' = [key \in 1..MaxKeys |->
                     IF grps[key] # None /\ group_modes[key] = << >>
                     THEN grps[key] ELSE titles[key]]
    /\ set_groups' = grps
    /\ UNCHANGED notMode

\* the toggler of the group list: Message::ToggleGroup(key,
\* group.send_mode.next()), stored by the handler
MainToggleGroup(key) ==
    /\ group_modes[key] # << >>
    /\ Len(group_modes[key]) <= MaxToggles
    /\ group_modes' = [group_modes EXCEPT ![key] =
                        Append(@, next(@[Len(@)]))]
    /\ set_groups' = [k \in 1..MaxKeys |-> None]
    /\ UNCHANGED titles
    /\ UNCHANGED notMode

InitMode == InitRoute

NextMode ==
    \/ \E grps \in GroupLists : SetGroups(grps)
    \/ \E key \in 1..MaxKeys : MainToggleGroup(key)

SpecMode == InitMode /\ [][NextMode]_vars

(***************************************************************************)
(* Part 9 (specification SpecRetry): the send loops of the older modules   *)
(* (signal_actions::send_message, async_actions::send_message), one loop   *)
(* per destination, each attempt racing the send call against a timer.     *)
(***************************************************************************)

notRetry == <<workerVars, ghostVars, recVars, categories, groups, network,
              resolved, acceptVars, histVars, evicted, bodyVars, group_modes,
              moreVars>>

Modules == {"signal_actions", "async_actions"}

\* send_message of one of the two modules reaches the loop of a destination
SpawnLoop(module) ==
    /\ Len(send_loops) < MaxLoops
    /\ send_loops' = Append(send_loops,
                        [module |-> module, pc |-> "select", attempts |-> 0,
                         delivered |-> FALSE])
    /\ UNCHANGED notRetry

\* select(send, timeout) resolved on the left: the send call returned.
\* signal_actions breaks out of the loop in the Ok arm only;
\* async_actions breaks after the inner match, in both arms
SendReturned(l, ok) ==
    /\ l \in 1..Len(send_loops)
    /\ send_loops[l].pc = "select"
    /\ ok \/ send_loops[l].attempts < MaxAttempts
    /\ send_loops' = [send_loops EXCEPT
          ![l].attempts = IF @ < MaxAttempts THEN @ + 1 ELSE @,
          ![l].delivered = ok,
          ![l].pc = IF ok \/ send_loops[l].module = "async_actions"
                    THEN "done" ELSE "select"]
    /\ UNCHANGED notRetry

\* select(send, timeout) resolved on the right: the timer fired first, the
\* send call is dropped and the loop goes round
TimerFired(l) ==
    /\ l \in 1..Len(send_loops)
    /\ send_loops[l].pc = "select"
    /\ send_loops[l].attempts < MaxAttempts
    /\ send_loops' = [send_loops EXCEPT ![l].attempts = @ + 1]
    /\ UNCHANGED notRetry

InitRetry == InitRoute

NextRetry ==
    \/ \E module \in Modules : SpawnLoop(module)
    \/ \E l \in 1..MaxLoops, ok \in BOOLEAN : SendReturned(l, ok)
    \/ \E l \in 1..MaxLoops : TimerFired(l)

SpecRetry == InitRetry /\ [][NextRetry]_vars

(***************************************************************************)
(* Part 10 (specification SpecSync): the sync tasks.  signal.rs sync is     *)
(* spawned by the worker on Linked(Ok); async_actions::sync is the older    *)
(* module's.  Each opens the stream of received messages and consumes it.   *)
(***************************************************************************)

notSync == <<workerVars, ghostVars, recVars, categories, groups, network,
             resolved, acceptVars, histVars, evicted, bodyVars, group_modes,
             send_loops, par, titles, set_groups>>

SyncModules == {"signal", "async_actions"}
Received == {"Contacts", "Content", "QueueEmpty"}

\* a sync task is spawned
SpawnSync(module) ==
    /\ Len(sync_tasks) < MaxSync
    /\ sync_tasks' = Append(sync_tasks,
                        [module |-> module, pc |-> "open", events |-> 0,
                         last |-> "none", synced |-> 0,
                         disconnected |-> FALSE])
    /\ UNCHANGED notSync

\* manager.receive_messages().await? : on Err the function returns at once
OpenStream(s, ok) ==
    /\ s \in 1..Len(sync_tasks)
    /\ sync_tasks[s].pc = "open"
    /\ sync_tasks' = [sync_tasks EXCEPT
          ![s].pc = IF ok THEN "consuming" ELSE "ended"]
    /\ UNCHANGED notSync

\* reciever.next() yielded Some(msg).  signal.rs sends Synced on QueueEmpty
\* and goes round; async_actions breaks out of the loop on QueueEmpty
StreamEvent(s, msg) ==
    /\ s \in 1..Len(sync_tasks)
    /\ sync_tasks[s].pc = "consuming"
    /\ sync_tasks[s].events < MaxEvents
    /\ sync_tasks' = [sync_tasks EXCEPT
          ![s].events = @ + 1,
          ![s].last = msg,
          ![s].synced = IF msg = "QueueEmpty" /\ sync_tasks[s].module = "signal"
                        THEN @ + 1 ELSE @,
          ![s].pc = IF msg = "QueueEmpty"
                       /\ sync_tasks[s].module = "async_actions"
                    THEN "groups" ELSE @]
    /\ UNCHANGED notSync

\* reciever.next() yielded None.  signal.rs sends SignalDisconnected and
\* returns; async_actions goes on to the group cache
StreamEnd(s) ==
    /\ s \in 1..Len(sync_tasks)
    /\ sync_tasks[s].pc = "consuming"
    /\ sync_tasks' = [sync_tasks EXCEPT
          ![s].last = "End",
          ![s].pc = IF sync_tasks[s].module = "signal"
                    THEN "ended" ELSE "groups",
          ![s].disconnected = sync_tasks[s].module = "signal"]
    /\ UNCHANGED notSync

\* async_actions::sync after the loop: manager.store().groups().await? ,
\* then invoke_synced
LoadGroups(s, ok) ==
    /\ s \in 1..Len(sync_tasks)
    /\ sync_tasks[s].pc = "groups"
    /\ sync_tasks' = [sync_tasks EXCEPT
          ![s].pc = "ended",
          ![s].synced = IF ok THEN @ + 1 ELSE @]
    /\ UNCHANGED notSync

InitSync == InitRoute

NextSync ==
    \/ \E module \in SyncModules : SpawnSync(module)
    \/ \E s \in 1..MaxSync, ok \in BOOLEAN : OpenStream(s, ok)
    \/ \E s \in 1..MaxSync, msg \in Received : StreamEvent(s, msg)
    \/ \E s \in 1..MaxSync : StreamEnd(s)
    \/ \E s \in 1..MaxSync, ok \in BOOLEAN : LoadGroups(s, ok)

SpecSync == InitSync /\ [][NextSync]_vars

(***************************************************************************)
(* Part 11 (specification SpecParallel): send_message of signal.rs with     *)
(* parallel = true.  One task runs join_all over one retry loop per Signal  *)
(* destination of the record; the loops are polled in turn on the worker's  *)
(* thread, each suspended at its own send call.                             *)
(***************************************************************************)

notParallel == <<message_queue, abort_handle, link_abort, manager,
                 has_connected, tasks, links, signal_state, ghostVars,
                 sent, sent_id, groups_signal, groups_whatsapp, app_manager,
                 whatsapp_client, ui_pc, edit, wa_tasks, ops, crashed,
                 categories, groups, network, resolved, acceptVars, histVars,
                 evicted, bodyVars, group_modes, send_loops, sync_tasks,
                 titles, set_groups>>

\* first poll: set_status(Sending), then every loop reaches its send call
ParStart ==
    /\ par.pc = "none"
    /\ status' = set_status(status, "Sending", sent_count(timestamp, sent))
    /\ par' = [pc |-> "joining",
               loops |-> [g \in 1..groups_signal |->
                             [pc |-> "send", attempts |-> 0]]]
    /\ UNCHANGED <<timestamp, signal_reciever, ui_tasks>>
    /\ UNCHANGED notParallel

\* (variant: the loops run one after the other, in list order)
ParAttempt_inOrder(g, ok) ==
    /\ par.pc = "joining"
    /\ g \in 1..groups_signal
    /\ par.loops[g].pc = "send"
    /\ \A h \in 1..(g - 1) : par.loops[h].pc = "done"
    /\ IF ok
       THEN /\ timestamp' = [timestamp EXCEPT ![g] = 1]
            /\ status' = set_status(status, "Sending",
                                    sent_count(timestamp', sent))
            /\ par' = [par EXCEPT !.loops[g].pc = "done"]
            /\ UNCHANGED ui_tasks
       ELSE /\ par.loops[g].attempts < MaxAttempts
            /\ status' = set_status(status, "Failed",
                                    sent_count(timestamp, sent))
            /\ ui_tasks' = ui_tasks \cup {"Notification"}
            /\ par' = [par EXCEPT !.loops[g].attempts = @ + 1]
            /\ UNCHANGED timestamp
    /\ UNCHANGED signal_reciever
    /\ UNCHANGED notParallel

\* the send call of the loop of destination g returned.  Ok: the marker is
\* written, set_status(Sending), the loop ends.  Err: set_status(Failed), a
\* Notification is sent, and the loop calls again at once
ParAttempt(g, ok) ==
    /\ par.pc = "joining"
    /\ g \in 1..groups_signal
    /\ par.loops[g].pc = "send"
    /\ IF ok
       THEN /\ timestamp' = [timestamp EXCEPT ![g] = 1]
            /\ status' = set_status(status, "Sending",
                                    sent_count(timestamp', sent))
            /\ par' = [par EXCEPT !.loops[g].pc = "done"]
            /\ UNCHANGED ui_tasks
       ELSE /\ par.loops[g].attempts < MaxAttempts
            /\ status' = set_status(status, "Failed",
                                    sent_count(timestamp, sent))
            /\ ui_tasks' = ui_tasks \cup {"Notification"}
            /\ par' = [par EXCEPT !.loops[g].attempts = @ + 1]
            /\ UNCHANGED timestamp
    /\ UNCHANGED signal_reciever
    /\ UNCHANGED notParallel

\* join_all returned (every loop has ended): set_status(Sent), the future
\* returns and message_task! sends Finished
ParJoin ==
    /\ par.pc = "joining"
    /\ \A g \in 1..groups_signal : par.loops[g].pc = "done"
    /\ status' = set_status(status, "Sent", sent_count(timestamp, sent))
    /\ signal_reciever' = Append(signal_reciever,
                                 SignalMessage("Finished", None))
    /\ par' = [par EXCEPT !.pc = "done"]
    /\ UNCHANGED <<timestamp, ui_tasks>>
    /\ UNCHANGED notParallel

\* a record with its destinations, its WhatsApp part sent or not, and the
\* worker linked with the record's send job about to be polled
InitParallel ==
    /\ signal_reciever = << >>
    /\ message_queue = << >>
    /\ abort_handle = None
    /\ link_abort = None
    /\ manager = TRUE
    /\ has_connected = TRUE
    /\ tasks = << >>
    /\ links = << >>
    /\ signal_state = "Linked"
    /\ issued = 0
    /\ next_job = 1
    /\ removed = {}
    /\ handled = [type |-> "none", arg |-> None, pop |-> None, before |-> "none"]
    /\ status = "Pending"
    /\ timestamp = [g \in 1..MaxSig |-> 0]
    /\ groups_signal \in 0..MaxSig
    /\ groups_whatsapp \in 0..MaxWa
    /\ sent \in [1..MaxWa -> BOOLEAN]
    /\ \A g \in 1..MaxWa : g > groups_whatsapp => ~sent[g]
    /\ sent_id = [g \in 1..MaxWa |-> IF sent[g] THEN 1 ELSE 0]
    /\ app_manager = TRUE
    /\ whatsapp_client \in BOOLEAN
    /\ ui_tasks = {}
    /\ ui_pc = Idle
    /\ edit = FALSE
    /\ wa_tasks = << >>
    /\ ops = 0
    /\ crashed = FALSE
    /\ NoRoute

NextParallel ==
    \/ ParStart
    \/ \E g \in 1..MaxSig, ok \in BOOLEAN : ParAttempt(g, ok)
    \/ ParJoin

SpecParallel == InitParallel /\ [][NextParallel]_vars

\* ============================================================= claims

LiveTasks == {t \in 1..Len(tasks) : tasks[t].st = "live"}
JobOf(t) == tasks[t].job.arg
\* the step is the worker taking a message of this type off the channel
Takes(type) ==
    /\ signal_reciever # << >>
    /\ Head(signal_reciever).type = type
    /\ signal_reciever' = Tail(signal_reciever)
Spawns == Len(tasks') > Len(tasks)
\* after the step the job in flight is a fresh live task of the front job
StartsFront ==
    /\ Len(tasks') = Len(tasks) + 1
    /\ abort_handle' = Len(tasks')
    /\ tasks'[abort_handle'].st = "live"
    /\ tasks'[abort_handle'].job = Head(message_queue)
\* after the step the task that was in flight runs no more
AbortsInFlight ==
    abort_handle # None => tasks'[abort_handle].st # "live"

\* C1: at every moment at most one send / delete / edit job has a live
\* task (spawned, not finished, not aborted).
C1_AtMostOneLiveTask == Cardinality(LiveTasks) <= 1

\* C2: jobs are started in enqueue order, each Finished removes exactly
\* the job whose task emitted it, and a job is removed only after a task
\* of its own ran to completion.
C2_FinishedRemovesOwnJob ==
    /\ \A t1, t2 \in 1..Len(tasks) : t1 < t2 => JobOf(t1) <= JobOf(t2)
    /\ handled.type = "Finished" => handled.pop = JobOf(handled.arg)
    /\ \A j \in removed :
          \E t \in 1..Len(tasks) : JobOf(t) = j /\ tasks[t].st = "done"

\* C3: handling Cancel aborts the job in flight, leaves the queue as it
\* is, and starts the front job again exactly when the connection is
\* there (and a job is queued); without connection nothing is started.
C3_CancelRelaunchesFront ==
    [][Takes("Cancel") =>
        /\ message_queue' = message_queue
        /\ AbortsInFlight
        /\ IF manager /\ message_queue # << >>
           THEN StartsFront
           ELSE ~Spawns /\ abort_handle' = None]_vars

C3_Witness ==
    /\ handled.type = "Cancel"
    /\ abort_handle # None
    /\ tasks[abort_handle].st = "live"
    /\ \E t \in 1..Len(tasks) :
          /\ t < abort_handle
          /\ tasks[t].st = "aborted"
          /\ tasks[t].job = tasks[abort_handle].job

\* C4: handling Disconnect aborts the job in flight and drops the
\* connection, leaving the queue as it is; no step starts a job while the
\* connection is absent; a successful link after that starts the front job.
C4_DisconnectParksQueue ==
    [][/\ Takes("Disconnect") =>
            /\ message_queue' = message_queue
            /\ manager' = FALSE
            /\ AbortsInFlight
            /\ abort_handle' = None
            /\ ~Spawns
       /\ Spawns => manager'
       /\ (Takes("Linked") /\ Head(signal_reciever).arg = 1
             /\ ~manager /\ message_queue # << >>) => StartsFront]_vars

C4_Witness ==
    /\ handled.before = "Disconnect"
    /\ handled.type = "Linked"
    /\ handled.arg = 1
    /\ abort_handle # None
    /\ tasks[abort_handle].st = "live"
    /\ \E t \in 1..Len(tasks) :
          /\ t < abort_handle
          /\ tasks[t].st = "aborted"
          /\ tasks[t].job = tasks[abort_handle].job

\* C5: in the send jobs of both backends the marker of a destination is
\* set only by the step that follows a successful backend call for that
\* destination, the loop leaves a destination only with its marker set,
\* and a failed call leaves every marker as it was, sets status Failed and
\* leaves the task at the same destination for another attempt.
C5_MarkerOnlyAfterSuccess ==
    [][/\ \A t \in 1..Len(tasks) :
            /\ SignalAttempt(t, FALSE) =>
                  /\ timestamp' = timestamp
                  /\ status' = "Failed"
                  /\ tasks'[t] = tasks[t]
            /\ (/\ tasks[t].job.type = "SendMessage"
                /\ tasks[t].st = "live"
                /\ tasks[t].pc = "send"
                /\ \/ tasks'[t].g # tasks[t].g
                   \/ tasks'[t].st = "done") =>
                  /\ SignalAttempt(t, TRUE)
                  /\ timestamp'[tasks[t].g] # 0
       /\ \A g \in 1..MaxSig :
            (timestamp[g] = 0 /\ timestamp'[g] # 0) =>
               \E t \in 1..Len(tasks) :
                  tasks[t].g = g /\ SignalAttempt(t, TRUE)
       /\ \A w \in 1..Len(wa_tasks) :
            /\ WhatsappAttempt(w, FALSE) =>
                  /\ sent' = sent
                  /\ status' = "Failed"
                  /\ wa_tasks'[w] = wa_tasks[w]
            /\ (wa_tasks[w].pc # "ok" /\ wa_tasks'[w].pc = "ok") =>
                  WhatsappAttempt(w, TRUE)
            /\ (/\ wa_tasks[w].pc \in {"send", "ok"}
                /\ \/ wa_tasks'[w].g # wa_tasks[w].g
                   \/ wa_tasks'[w].pc = "done") =>
                  /\ wa_tasks[w].pc = "ok"
                  /\ sent'[wa_tasks[w].g]
       /\ \A g \in 1..MaxWa :
            (~sent[g] /\ sent'[g]) =>
               \E w \in 1..Len(wa_tasks) :
                  /\ wa_tasks[w].g = g
                  /\ wa_tasks[w].pc = "ok"
                  /\ WhatsappSetId(w)]_vars

\* a send task stands at its second destination after a failed call: the
\* first destination was left with its marker set, the second is not set
C5_Witness ==
    \E t \in 1..Len(tasks) :
       /\ tasks[t].job.type = "SendMessage"
       /\ tasks[t].st = "live"
       /\ tasks[t].pc = "send"
       /\ tasks[t].g = 2
       /\ timestamp[1] # 0
       /\ timestamp[2] = 0
       /\ status = "Failed"

\* C11: no successful backend send of a send job goes to a destination
\* whose marker is already set.
C11_NoSecondSend ==
    [][/\ \A t \in 1..Len(tasks) :
            (tasks[t].job.type = "SendMessage" /\ SignalAttempt(t, TRUE)) =>
               timestamp[tasks[t].g] = 0
       /\ \A w \in 1..Len(wa_tasks) :
            (wa_tasks[w].kind = "send" /\ WhatsappAttempt(w, TRUE)) =>
               ~sent[wa_tasks[w].g]]_vars

\* the send job of task t is suspended in a backend call that never resolves
Hung(t) == t <= Len(tasks) /\ tasks[t].st = "live" /\ tasks[t].pc = "hung"

\* C12: a send attempt whose backend call does not resolve is abandoned
\* when the send timeout fires: the task does not stay in that call forever.
C12_HungAttemptAbandoned == \A t \in 1..MaxTasks : Hung(t) ~> ~Hung(t)

\* C6: if from some point on the connection stays available (and the
\* environment, which is finite, has stopped sending), every queued job is
\* eventually started, finished and removed: the queue drains for good.
C6_QueueDrains == (<>[](manager = TRUE)) => <>[](message_queue = << >>)

\* ------------------------------------------------ the DeliveryRecord

SignalSet(g) == timestamp[g] # 0
WhatsappSet(g) == sent[g]
AllSet ==
    /\ \A g \in 1..groups_signal : SignalSet(g)
    /\ \A g \in 1..groups_whatsapp : WhatsappSet(g)
NoneSet ==
    /\ \A g \in 1..groups_signal : ~SignalSet(g)
    /\ \A g \in 1..groups_whatsapp : ~WhatsappSet(g)

\* C7: in every reachable state, status = Sent only if every
\* CompletionMarker of the record is set.
C7_SentOnlyIfAllSet == status = "Sent" => AllSet

\* C8: in every reachable state, status = Deleted only if no
\* CompletionMarker of the record is set.
C8_DeletedOnlyIfNoneSet == status = "Deleted" => NoneSet

\* C13: confirming an edit leaves the destinations as they were, stores
\* Pending and unsets every marker: each Signal timestamp 0, each WhatsApp
\* sent flag false and identifier empty.
C13_EditUnsetsMarkers ==
    [][(UiConfirmEdit /\ ~crashed') =>
          /\ groups_signal' = groups_signal
          /\ groups_whatsapp' = groups_whatsapp
          /\ status' = "Pending"
          /\ \A g \in 1..groups_signal : timestamp'[g] = 0
          /\ \A g \in 1..groups_whatsapp : ~sent'[g] /\ sent_id'[g] = 0
          /\ "EditMessage" \in ui_tasks']_vars

\* C14: while a record is being deleted a marker is reset only by the step
\* that follows the backend's confirmation of the deletion for that
\* destination, an unconfirmed destination keeps its marker, and a delete
\* job stores Deleted only when every marker is reset.
C14_ResetOnlyWhenConfirmed ==
    [][/\ \A g \in 1..MaxSig :
            (timestamp[g] # 0 /\ timestamp'[g] = 0 /\ ~UiConfirmEdit) =>
               \E t \in 1..Len(tasks) :
                  /\ tasks[t].job.type = "DeleteMessage"
                  /\ tasks[t].g = g
                  /\ SignalAttempt(t, TRUE)
       /\ \A g \in 1..MaxWa :
            (sent[g] /\ ~sent'[g]) =>
               \E w \in 1..Len(wa_tasks) :
                  /\ wa_tasks[w].kind = "delete"
                  /\ wa_tasks[w].g = g
                  /\ wa_tasks[w].pc = "ok"
       /\ \A t \in 1..Len(tasks) :
            /\ (tasks[t].job.type = "DeleteMessage" /\ SignalAttempt(t, FALSE)) =>
                  timestamp' = timestamp /\ status' # "Deleted"
            /\ (/\ tasks[t].job.type = "DeleteMessage"
                /\ \E ok \in BOOLEAN : SignalAttempt(t, ok)
                /\ status # "Deleted"
                /\ status' = "Deleted") => NoneSet']_vars

\* ------------------------------------------------ destination resolution

\* the categories whose network set contains the message's tag
Matching == {i \in 1..Len(categories) : network \in categories[i].networks}
\* those of them that have an override for the destination
Overriding(key) == {i \in Matching : categories[i].groups[key] # NoEntry}
LastOf(S) == CHOOSE i \in S : \A j \in S : j <= i

\* C15: a destination with an override in several matching categories is
\* resolved to the override of the matching category processed last (no
\* matching category asks for the general groups, the last override is
\* not Off).
C15_LastCategoryWins ==
    (resolved.done /\ \A i \in Matching : ~categories[i].use_general) =>
       \A key \in Dests :
          (/\ Cardinality(Overriding(key)) >= 2
           /\ active(categories[LastOf(Overriding(key))].groups[key])) =>
             resolved.map[key] = categories[LastOf(Overriding(key))].groups[key]

\* C16: when a matching category has use_general, every globally active
\* destination without a category override is in the resolved set with its
\* global SendMode, and a destination with a category override has the
\* SendMode of a category override (or is dropped when that is Off).
C16_GeneralUnion ==
    (resolved.done /\ \E i \in Matching : categories[i].use_general) =>
       \A key \in Dests :
          /\ (Overriding(key) = {} /\ active(groups[key])) =>
                resolved.map[key] = groups[key]
          /\ Overriding(key) # {} =>
                \E i \in Overriding(key) :
                   \/ resolved.map[key] = categories[i].groups[key]
                   \/ /\ categories[i].groups[key] = "Off"
                      /\ resolved.map[key] = NoEntry

\* C17: without a network tag, or with a tag that no category's network
\* set contains, the resolved set is exactly the globally active
\* destinations (Normal or Frequency), each with its global SendMode.
C17_FallbackToGeneral ==
    (resolved.done /\ Matching = {}) =>
       \A key \in Dests :
          resolved.map[key] = IF groups[key] \in {"Normal", "Frequency"}
                              THEN groups[key] ELSE NoEntry

\* a tagged message that no category matches: a category for another
\* network overrides a destination with Frequency, the destination is
\* globally Normal and is resolved to Normal
C17_Witness ==
    /\ resolved.done
    /\ network # None
    /\ Matching = {}
    /\ \E i \in 1..Len(categories), key \in Dests :
          /\ categories[i].networks # {}
          /\ categories[i].groups[key] = "Frequency"
          /\ groups[key] = "Normal"
          /\ resolved.map[key] = "Normal"

\* C18: no destination pushed into the record has SendMode Off.
C18_NoOffResolved ==
    resolved.done => \A key \in Dests : resolved.map[key] # "Off"

\* the record has a destination on a backend that is not linked
Unlinked ==
    \/ ~app_manager /\ groups_signal # 0
    \/ ~whatsapp_client /\ groups_whatsapp # 0

\* C19: submitting a record creates no job for a backend that is not
\* linked; if that backend has a destination in the record a notification
\* is emitted and the record is Deleted, and stays Deleted; if it has none,
\* no notification is emitted.
C19_UnlinkedBackendDeleted ==
    [][/\ UiSendMessage =>
            /\ ~app_manager => signal_reciever' = signal_reciever
            /\ ~whatsapp_client => wa_tasks' = wa_tasks
            /\ Unlinked <=> "Notification" \in ui_tasks'
            /\ Unlinked => status' = "Deleted"
       /\ (Unlinked /\ status = "Deleted") => status' = "Deleted"]_vars

\* a record with destinations on both backends, WhatsApp not linked, was
\* submitted: it is Deleted and nothing was started
C19_Witness ==
    /\ "SendMessage" \notin ui_tasks
    /\ app_manager
    /\ ~whatsapp_client
    /\ groups_signal # 0
    /\ groups_whatsapp # 0
    /\ status = "Deleted"
    /\ signal_reciever = << >>
    /\ tasks = << >>
    /\ wa_tasks = << >>

\* the freeform message made of a body
Freeform(s) == [from_string(s) EXCEPT !.autosend_overwrite = TRUE]

\* C20: a body that is not a JSON array of messages is answered OK, yields
\* exactly one freeform message holding the raw body, that message goes to
\* the review queue when the UI takes it, and no raw body is ever sent
\* automatically, whatever autosend is.
C20_ParseFailureQueued ==
    /\ [](\A i \in 1..Len(sends) :
             sends[i].auto => sends[i].text.kind # "raw")
    /\ [][/\ (posts' = posts + 1 /\ ~from_str_ok(request')) =>
               /\ response' = "OK"
               /\ msg_send_channel' =
                     Append(msg_send_channel, <<Freeform(request')>>)
          /\ (/\ Len(msg_send_channel') < Len(msg_send_channel)
              /\ \E s \in Bodies :
                    ~from_str_ok(s) /\ Head(msg_send_channel) = <<Freeform(s)>>) =>
               /\ sends' = sends
               /\ main_scr_queue' = main_scr_queue \o Head(msg_send_channel)]_vars

\* with autosend on, a well-formed body was sent automatically and a
\* malformed one is under review
C20_Witness ==
    /\ autosend
    /\ response = "OK"
    /\ ~from_str_ok(request)
    /\ cur_message = <<Freeform(request)>>
    /\ \E i \in 1..Len(sends) : sends[i].auto

\* C21: the history list never holds more records than the current limit,
\* and a push that overflows removes the record at the back of the list,
\* the one pushed longest ago.
C21_HistoryBounded ==
    /\ [](Len(message_history) <= history_len)
    /\ [][popped' # None =>
             /\ message_history # << >>
             /\ popped' = message_history[Len(message_history)]]_vars

\* C22: the step that evicts the record from the history changes neither
\* the worker's channel, queue and in-flight task nor the record's tasks,
\* markers and status; the tasks of an evicted record go on as before.
C22_EvictionLeavesSend ==
    [][(evicted'.done /\ ~evicted.done) =>
          /\ UNCHANGED <<signal_reciever, message_queue, abort_handle, tasks,
                         wa_tasks>>
          /\ UNCHANGED <<status, timestamp, sent, sent_id>>]_vars

\* a record evicted with no marker set, while its send job was queued or
\* in flight, was sent to every destination and is Sent
C22_Witness ==
    /\ evicted.done
    /\ evicted.count = 0
    /\ groups_signal > 0
    /\ \A g \in 1..groups_signal : timestamp[g] # 0
    /\ \A g \in 1..groups_whatsapp : sent[g]
    /\ status = "Sent"

\* the body is the rendered content with the message's frequency string
\* and a line break in front
Prefixed(body, rendered) ==
    /\ info.freq # << >>
    /\ body = <<info.freq[1], "nl">> \o rendered

RenderedSignal == rendered_signal(info.content, info.markdown, info.parse_ok)
RenderedWhatsapp == rendered_whatsapp(info.content, info.markdown, info.parse_ok)

\* C23 as stated: the content sent to a destination is prefixed with the
\* message's frequency string if and only if the destination's SendMode is
\* Frequency.
C23_PrefixIffFrequency ==
    /\ \A g \in 1..MaxSig : body_signal[g].built =>
          (Prefixed(body_signal[g].body, RenderedSignal)
             <=> info.signal[g] = "Frequency")
    /\ \A g \in 1..MaxWa : body_whatsapp[g].built =>
          (Prefixed(body_whatsapp[g].body, RenderedWhatsapp)
             <=> info.whatsapp[g] = "Frequency")

\* C23, amended: the content sent to a destination is prefixed with the
\* message's frequency string if and only if the destination's SendMode is
\* Frequency and the message has a frequency string; otherwise the
\* destination receives the content without a prefix.
C23_PrefixIffFrequencyAndFreq ==
    /\ \A g \in 1..MaxSig : body_signal[g].built =>
          /\ Prefixed(body_signal[g].body, RenderedSignal)
                <=> (info.signal[g] = "Frequency" /\ info.freq # << >>)
          /\ ~Prefixed(body_signal[g].body, RenderedSignal)
                => body_signal[g].body = RenderedSignal
    /\ \A g \in 1..MaxWa : body_whatsapp[g].built =>
          /\ Prefixed(body_whatsapp[g].body, RenderedWhatsapp)
                <=> (info.whatsapp[g] = "Frequency" /\ info.freq # << >>)
          /\ ~Prefixed(body_whatsapp[g].body, RenderedWhatsapp)
                => body_whatsapp[g].body = RenderedWhatsapp

\* a record with a frequency string, markdown on: its Frequency
\* destination got the prefix, its Normal destination did not
C23_Witness ==
    /\ info.made
    /\ info.freq # << >>
    /\ info.markdown /\ info.parse_ok
    /\ \E g, h \in 1..MaxSig :
          /\ info.signal[g] = "Frequency" /\ info.signal[h] = "Normal"
          /\ body_signal[g].built /\ body_signal[h].built
          /\ body_signal[g].body = <<"f", "nl">> \o body_signal[h].body
    /\ \E g \in 1..MaxWa :
          /\ info.whatsapp[g] = "Frequency"
          /\ body_whatsapp[g].built
          /\ Prefixed(body_whatsapp[g].body, RenderedWhatsapp)

\* C24: next takes Off to Normal, Normal to Frequency and Frequency to Off,
\* so three applications give back the starting value for every mode;
\* active is false for Off and true for Normal and Frequency.
C24_NextCycles ==
    \A key \in 1..MaxKeys :
       \A i \in 1..Len(group_modes[key]) :
          LET m == group_modes[key][i]
          IN  /\ active(m) <=> m \in {"Normal", "Frequency"}
              /\ ~active(m) <=> m = "Off"
              /\ i + 1 <= Len(group_modes[key]) =>
                    \/ m = "Off" /\ group_modes[key][i + 1] = "Normal"
                    \/ m = "Normal" /\ group_modes[key][i + 1] = "Frequency"
                    \/ m = "Frequency" /\ group_modes[key][i + 1] = "Off"
              /\ i + 3 <= Len(group_modes[key]) => group_modes[key][i + 3] = m

\* a group was toggled five times: each of the three modes came back
\* after three toggles
C24_Witness ==
    \E key \in 1..MaxKeys :
       group_modes[key] =
          <<"Off", "Normal", "Frequency", "Off", "Normal", "Frequency">>

\* the Signal tasks / WhatsApp tasks that are in the loop of destination g
DrivingSignal(g) ==
    {t \in LiveTasks : tasks[t].pc \in {"send", "hung"} /\ tasks[t].g = g}
DrivingWhatsapp(g) ==
    {w \in 1..Len(wa_tasks) :
        \/ wa_tasks[w].pc \in {"send", "ok"} /\ wa_tasks[w].g = g
        \/ wa_tasks[w].pc = "reset"}

\* C25: no destination of the record is driven by two live loops at once.
C25_OneLoopPerDestination ==
    /\ \A g \in 1..groups_signal : Cardinality(DrivingSignal(g)) <= 1
    /\ \A g \in 1..groups_whatsapp : Cardinality(DrivingWhatsapp(g)) <= 1

\* the WhatsApp operations that were started and have not finished
RunningWhatsapp == {w \in 1..Len(wa_tasks) : wa_tasks[w].pc # "done"}

\* C27: the WhatsApp operations are serialized: an operation is started
\* only after the one submitted before it finished, so at most one is
\* unfinished at any time.
C27_WhatsappSerialized == Cardinality(RunningWhatsapp) <= 1

\* C28: handling LinkBegin, CancelLink or GetGroups leaves the job queue
\* and the in-flight job untouched: no job is added, removed, aborted or
\* started.
C28_NonQueuedLeaveJobs ==
    [][(Takes("LinkBegin") \/ Takes("CancelLink") \/ Takes("GetGroups")) =>
          UNCHANGED <<message_queue, abort_handle, tasks>>]_vars

\* C29: in both timeout-raced loops a send call that returns an error is
\* followed by another attempt, like a timeout: the loop of a destination
\* has ended only if a send call returned success.
C29_ErrorRetried ==
    \A l \in 1..Len(send_loops) :
       send_loops[l].pc = "done" => send_loops[l].delivered

\* task t runs a job that an aborted task ran before it
Relaunched(t) ==
    \E t0 \in 1..(t - 1) :
       tasks[t0].st = "aborted" /\ tasks[t0].job = tasks[t].job

\* C26: handling Cancel while the send job's task is waiting on the call
\* for a destination changes no marker and stops the task, which never
\* acts again (the destination's marker stays as it was); with the
\* connection there the same job is started again from its first
\* destination, and each successful send of the relaunched task sets the
\* marker of its destination.
C26_CancelLeavesMarkerUnset ==
    [][/\ Takes("Cancel") =>
            /\ timestamp' = timestamp
            /\ sent' = sent
            /\ (abort_handle # None /\ tasks[abort_handle].st = "live") =>
                  /\ tasks'[abort_handle].st = "aborted"
                  /\ manager =>
                        /\ Spawns
                        /\ tasks'[Len(tasks')] =
                              execute_task(tasks[abort_handle].job)
       /\ \A t \in 1..Len(tasks) :
            /\ tasks[t].st = "aborted" => tasks'[t] = tasks[t]
            /\ (/\ Relaunched(t)
                /\ tasks[t].job.type = "SendMessage"
                /\ SignalAttempt(t, TRUE)) =>
                  timestamp'[tasks[t].g] # 0]_vars

\* the first task of a send job was aborted while waiting on the call for
\* the first destination (marker unset); the relaunched task of the same
\* job has completed and the marker is set
C26_Witness ==
    /\ Len(tasks) >= 2
    /\ tasks[1].st = "aborted"
    /\ tasks[1].pc = "send"
    /\ tasks[1].g = 1
    /\ tasks[1].job.type = "SendMessage"
    /\ tasks[2].job = tasks[1].job
    /\ tasks[2].st = "done"
    /\ timestamp[1] # 0

\* C30: when some category matches the message's network and no matching
\* category asks for the general groups, every resolved destination has an
\* override in a matching category (also when the matching categories have
\* no override at all: then nothing is resolved).
C30_OnlyOverridesResolved ==
    (/\ resolved.done
     /\ Matching # {}
     /\ \A i \in Matching : ~categories[i].use_general) =>
       \A key \in Dests :
          resolved.map[key] # NoEntry => Overriding(key) # {}

\* the step is the worker taking Linked(Err) off the channel
TakesLinkedErr == Takes("Linked") /\ Head(signal_reciever).arg = 0

\* C31: handling Linked(Err) leaves the connection, the queue and the
\* tasks as they were (no job is started), reports Disconnected when a link
\* succeeded earlier in this run and Unlinked otherwise; and whenever a
\* message waits on the channel the worker can take it.
C31_FailedLinkHarmless ==
    /\ [](signal_reciever # << >> => ENABLED Worker)
    /\ [][TakesLinkedErr =>
            /\ UNCHANGED <<manager, has_connected, message_queue, tasks,
                           abort_handle>>
            /\ signal_state' = IF has_connected THEN "Disconnected"
                               ELSE "Unlinked"]_vars

\* a failed link was just handled after an earlier successful one, with a
\* job waiting in the queue: no connection, no task for the job
C31_Witness ==
    /\ handled.type = "Linked"
    /\ handled.arg = 0
    /\ has_connected
    /\ ~manager
    /\ message_queue # << >>
    /\ abort_handle = None
    /\ signal_state = "Disconnected"

\* the sync task consumes the stream no more
StoppedConsuming(s) == sync_tasks[s].pc \in {"groups", "ended"}

\* C32: a sync task has reported Disconnected exactly when it has stopped
\* consuming the stream (also when the stream could not be opened), and a
\* QueueEmpty event leaves it consuming with nothing but Synced reported.
C32_DisconnectedIffStopped ==
    \A s \in 1..Len(sync_tasks) :
       /\ sync_tasks[s].disconnected <=> StoppedConsuming(s)
       /\ sync_tasks[s].last = "QueueEmpty" =>
             /\ sync_tasks[s].pc = "consuming"
             /\ sync_tasks[s].synced > 0
             /\ ~sync_tasks[s].disconnected

\* the loop of destination g has ended
LoopDone(g) == par.pc # "none" /\ par.loops[g].pc = "done"

\* C33: in parallel mode the loop of a destination can take the result of
\* its send call whatever the other loops do, a failed attempt of one loop
\* changes no other loop and no marker, a marker is set exactly when its
\* loop has ended, and the job has finished (Finished sent, status Sent)
\* only when every loop has ended with its marker set.
C33_ParallelLoopsIndependent ==
    /\ [](/\ \A g \in 1..groups_signal :
              /\ (par.pc = "joining" /\ ~LoopDone(g)) =>
                    ENABLED ParAttempt(g, TRUE)
              /\ timestamp[g] # 0 <=> LoopDone(g)
          /\ (par.pc = "done" \/ status = "Sent" \/ signal_reciever # << >>) =>
                \A g \in 1..groups_signal : LoopDone(g) /\ timestamp[g] # 0)
    /\ [][\A g \in 1..groups_signal :
            (par.pc = "joining" /\ par'.loops[g].attempts > par.loops[g].attempts)
               => /\ timestamp' = timestamp
                  /\ \A h \in 1..groups_signal \ {g} :
                        par'.loops[h] = par.loops[h]]_vars

\* the first destination has failed as often as the bound allows and is
\* still being tried, the second destination's marker is set
C33_Witness ==
    /\ groups_signal >= 2
    /\ par.pc = "joining"
    /\ par.loops[1].pc = "send"
    /\ par.loops[1].attempts = MaxAttempts
    /\ timestamp[1] = 0
    /\ timestamp[2] # 0
    /\ status = "Failed"

\* the step is a send call of the record returning, with this result
AttemptReturns(ok) ==
    \/ \E t \in 1..Len(tasks) : SignalAttempt(t, ok)
    \/ \E w \in 1..Len(wa_tasks) : WhatsappAttempt(w, ok)

\* C34: a failed send attempt makes the status Failed, and a status Failed
\* is changed only by a send attempt of the record that succeeds.
C34_FailedUntilSuccess ==
    [][/\ AttemptReturns(FALSE) => status' = "Failed"
       /\ (status = "Failed" /\ status' # "Failed") => AttemptReturns(TRUE)]_vars

\* the link tasks that can still send a Linked result
RunningLinks == {l \in 1..Len(links) : links[l] \in {"spawned", "running"}}

\* C35: when CancelLink has been handled no link task runs any more, so no
\* Linked result of the cancelled attempt can be sent afterwards.
C35_CancelLinkStopsLink ==
    [][Takes("CancelLink") => RunningLinks' = {}]_vars

\* C36: no task of a Signal delete job panics: whenever delete_message
\* reads the timestamp of a destination, the destination's marker is set
\* (also in a task relaunched after Cancel or started again after
\* Disconnect).
C36_DeleteReadsSetMarker ==
    \A t \in 1..Len(tasks) :
       tasks[t].job.type = "DeleteMessage" => tasks[t].st # "panicked"

\* C37: whenever an edit is confirmed the edit slot is the only owner of
\* the record (no queued or travelling job, no live task, no undispatched
\* message holds it), so Arc::get_mut(..).unwrap() does not panic.
C37_EditHasExclusiveAccess ==
    [][UiConfirmEdit => (owners = 1 /\ ~crashed')]_vars

\* C38: a message taken from the review queue is the one that arrived
\* first and becomes the message under review, the rest of the queue keeps
\* its order; the message under review leaves only when the operator
\* presses the button.
C38_ReviewInArrivalOrder ==
    [][/\ (next_tasks' < next_tasks /\ main_scr_queue # << >>) =>
            /\ cur_message' = <<Head(main_scr_queue)>>
            /\ main_scr_queue' = Tail(main_scr_queue)
       /\ (cur_message # << >> /\ cur_message' # cur_message) =>
            presses' = presses + 1]_vars

\* the group is in the list of the main screen
Known(key) == group_modes[key] # << >>
\* the groups whose global SendMode puts them into the general set
ActiveKeys ==
    {key \in 1..MaxKeys :
        Known(key) /\ active(group_modes[key][Len(group_modes[key])])}

\* C39: a known group stays known with its title, whatever is handled; a
\* SetGroups step leaves the SendMode of every known group as it was, adds
\* each listed group that was not known with the listed title and SendMode
\* Off, adds no other group, and leaves the set of active groups as it was.
C39_RefreshKeepsKnownGroups ==
    [][\A key \in 1..MaxKeys :
          /\ Known(key) => (Known(key)' /\ titles'[key] = titles[key])
          /\ (\E grps \in GroupLists : SetGroups(grps)) =>
                /\ Known(key) => group_modes'[key] = group_modes[key]
                /\ ~Known(key) =>
                      IF set_groups'[key] # None
                      THEN /\ group_modes'[key] = <<"Off">>
                           /\ titles'[key] = set_groups'[key]
                      ELSE ~Known(key)'
                /\ ActiveKeys' = ActiveKeys]_vars

\* the list handled last names a known group, toggled to Normal before,
\* with another title than the one it has, and a group seen for the first
\* time: the first keeps mode and title, the second is Off
C39_Witness ==
    \E key, new \in 1..MaxKeys :
       /\ key # new
       /\ set_groups[key] # None
       /\ set_groups[key] # titles[key]
       /\ group_modes[key] = <<"Off", "Normal">>
       /\ set_groups[new] # None
       /\ titles[new] = set_groups[new]
       /\ group_modes[new] = <<"Off">>
       /\ ActiveKeys = {key}

C10_SetStatusGuard ==
    [][ui_pc'.at = "done" =>
          /\ status' = CASE ui_pc'.new = "Sent" ->
                                IF AllSet THEN "Sent" ELSE status
                          [] ui_pc'.new = "Deleted" ->
                                IF NoneSet THEN "Deleted" ELSE status
                          [] OTHER -> ui_pc'.new
          /\ timestamp' = timestamp
          /\ sent' = sent
          /\ sent_id' = sent_id]_vars

\* a set_status(Deleted) on a record with a marker set was refused
C10_Witness ==
    /\ ui_pc.at = "done"
    /\ ui_pc.new = "Deleted"
    /\ ui_pc.old = "Sent"
    /\ ~NoneSet
    /\ status = "Sent"

====
